---- MODULE Spec2Model ----
(***************************************************************************)
(* A model of the trajectory / video assembly pipeline of the RLDS dataset *)
(* builders (PPGM_dataset_builder.py and its TDROID twin):                 *)
(*   MP4Reader, RecordedMultiCameraWrapper, TrajectoryReader,              *)
(*   load_trajectory, _parse_example and _generate_examples.               *)
(*                                                                         *)
(* Python values are modelled as records with a "kind" field, so that None,*)
(* a frame, a dict and a raised exception can be compared with each other. *)
(***************************************************************************)
EXTENDS Integers, Sequences, FiniteSets, TLC

(* ----------------------------- bounds ---------------------------------- *)
MaxFrames == 3
MaxHorizon == 3
MaxSamples == 2
MaxSteps == 3
MaxEpisodes == 2

(* ------------------------- Python values ------------------------------- *)
NoneVal == [kind |-> "None"]
Raised(e) == [kind |-> "raise", exc |-> e]
IsRaise(v) == v.kind = "raise"
\* x = v followed by F(x): the value is computed once and then named, as an
\* assignment statement does.
Bind(v, F(_)) == CHOOSE out \in {F(x) : x \in {v}} : TRUE

(* --------------------------- Python dicts ------------------------------ *)
\* A dict is its items in insertion order.
Dict(items) == [kind |-> "dict", items |-> items]
PyInt(n) == [kind |-> "int", v |-> n]
PyBool(b) == [kind |-> "bool", v |-> b]
\* A float, in halves: PyFloat(3) is 1.5.
PyFloat(halves) == [kind |-> "float", halves |-> halves]
\* A list (or array) of values.
PyList(items) == [kind |-> "list", items |-> items]
Has(d, key) == \E i \in 1..Len(d.items) : d.items[i].k = key
Get(d, key) == d.items[CHOOSE i \in 1..Len(d.items) : d.items[i].k = key].v
GetOr(d, key, default) == IF Has(d, key) THEN Get(d, key) ELSE default
Set(d, key, value) ==
    IF Has(d, key)
    THEN Dict([i \in 1..Len(d.items) |->
                 IF d.items[i].k = key THEN [k |-> key, v |-> value] ELSE d.items[i]])
    ELSE Dict(Append(d.items, [k |-> key, v |-> value]))
Keys(d) == {d.items[i].k : i \in 1..Len(d.items)}
RECURSIVE Update(_, _)
Update(d, other) ==
    IF other.items = <<>> THEN d
    ELSE Update(Set(d, Head(other.items).k, Head(other.items).v), Dict(Tail(other.items)))

(* ---------------- cv2.VideoCapture as MP4Reader uses it ---------------- *)
\* A stream of nframes frames; pos is the 0-based number of the frame the
\* decoder returns next (cv2.CAP_PROP_POS_FRAMES).
VideoCapture(filepath) ==
    [file |-> filepath.stem, nframes |-> filepath.nframes, pos |-> 0,
     isOpened |-> filepath.opens, released |-> FALSE]

\* success, frame = self._mp4_reader.read(): at the end of the stream the
\* decoder reports no success and hands back no frame.
VideoCapture_read(cap) ==
    IF cap.pos < cap.nframes
    THEN [cap |-> [cap EXCEPT !.pos = @ + 1], success |-> TRUE,
          frame |-> [kind |-> "frame", file |-> cap.file, no |-> cap.pos, fmt |-> "BGR"]]
    ELSE [cap |-> cap, success |-> FALSE, frame |-> NoneVal]

\* What a decoder backend does with a negative seek target (the code passes
\* index - 1 with index = 0): clamp it to the first frame, or reject the seek
\* and leave the position unchanged.
NegativeSeek == {"first", "unchanged"}

\* self._mp4_reader.set(cv2.CAP_PROP_POS_FRAMES, target): a target inside the
\* stream becomes the next frame to decode.
VideoCapture_set(cap, target, neg) ==
    IF target >= 0
    THEN [cap EXCEPT !.pos = IF target <= cap.nframes THEN target ELSE cap.nframes]
    ELSE IF neg = "first" THEN [cap EXCEPT !.pos = 0] ELSE cap

\* cv2.cvtColor(frame, code): an empty source (the None that a failed read
\* hands back) is an error.
cvtColor(frame, code) ==
    IF frame.kind = "None" THEN Raised("cv2.error") ELSE [frame EXCEPT !.fmt = code]

(* ------------------------------ MP4Reader ------------------------------ *)
\* A video file on disk: [stem, ext, nframes, opens]; its name is stem.ext.
VideoFile(stem, nframes) == [stem |-> stem, ext |-> "mp4", nframes |-> nframes, opens |-> TRUE]

\* A file of another extension in a recordings folder, e.g. a .svo recording.
OtherFile(stem, ext) == [stem |-> stem, ext |-> ext, nframes |-> 0, opens |-> FALSE]

\* MP4Reader.__init__: the reader, or the exception it raises. skip_reading is
\* set by set_reading_parameters before every use of the reader.
MP4Reader(filepath, serial_number, grayscale) ==
    IF ~VideoCapture(filepath).isOpened THEN Raised("RuntimeError")
    ELSE [kind |-> "MP4Reader", serial_number |-> serial_number, grayscale |-> grayscale,
          _index |-> 0, _mp4_reader |-> VideoCapture(filepath), skip_reading |-> FALSE]

\* Reading parameters that never disable decoding.
set_reading_parameters_always_read(r, image) == [r EXCEPT !.skip_reading = FALSE]

\* set_reading_parameters(image=image): self.skip_reading = not image
set_reading_parameters(r, image) == [r EXCEPT !.skip_reading = ~image]

_process_frame(frame) == frame

\* read_camera: [reader |-> the reader afterwards, ret |-> the value returned
\* or the exception raised, success |-> what the decoder's read reported].
read_camera(r, ignore_data) ==
    IF r.skip_reading THEN [reader |-> r, ret |-> Dict(<<>>), success |-> TRUE]
    ELSE LET rd == VideoCapture_read(r._mp4_reader)
             r1 == [r EXCEPT !._mp4_reader = rd.cap]
             frame == cvtColor(rd.frame, IF r.grayscale THEN "GRAY" ELSE "RGB")
         IN IF IsRaise(frame) THEN [reader |-> r1, ret |-> frame, success |-> rd.success]
            ELSE LET r2 == [r1 EXCEPT !._index = @ + 1]
                 IN IF ~rd.success
                    THEN [reader |-> r2, ret |-> NoneVal, success |-> FALSE]
                    ELSE IF ignore_data
                    THEN [reader |-> r2, ret |-> NoneVal, success |-> TRUE]
                    ELSE [reader |-> r2, success |-> TRUE,
                          ret |-> Dict(<<[k |-> "image",
                                          v |-> Dict(<<[k |-> r.serial_number,
                                                        v |-> _process_frame(frame)]>>)]>>)]

\* while self._index < index: self.read_camera(ignore_data=True)
RECURSIVE skip_frames(_, _, _)
skip_frames(r, index, success) ==
    IF r._index < index
    THEN Bind(read_camera(r, TRUE), LAMBDA res :
              IF IsRaise(res.ret) THEN res
              ELSE skip_frames(res.reader, index, success /\ res.success))
    ELSE [reader |-> r, ret |-> NoneVal, success |-> success]

\* The position the backward branch of set_frame_index seeks the decoder to.
seek_target(index) == index - 1

\* set_frame_index(index); neg says what the backend does with a negative
\* seek target.
set_frame_index(r, index, neg) ==
    IF r.skip_reading THEN [reader |-> r, ret |-> NoneVal, success |-> TRUE]
    ELSE LET r1 == IF index < r._index
                   THEN [r EXCEPT !._mp4_reader =
                                      VideoCapture_set(@, seek_target(index), neg),
                                  !._index = index]
                   ELSE r
         IN skip_frames(r1, index, TRUE)

\* MP4Reader.disable_camera
disable_camera(r) == [r EXCEPT !._mp4_reader.released = TRUE]

\* What a fresh reader returns at its (i+1)-th sequential read_camera().
RECURSIVE read_sequentially(_, _)
read_sequentially(r, i) ==
    Bind(read_camera(r, FALSE), LAMBDA res :
         IF i = 0 \/ IsRaise(res.ret) THEN res.ret ELSE read_sequentially(res.reader, i - 1))

(* --------------------- RecordedMultiCameraWrapper ---------------------- *)
CAMERA_TYPE_TO_STRING_DICT ==
    Dict(<<[k |-> PyInt(0), v |-> "wrist_camera"], [k |-> PyInt(1), v |-> "static_camera"]>>)

\* f"{cam_id}_depth"
DepthId(cam_id) ==
    CASE cam_id = "W" -> "W_depth" [] cam_id = "S" -> "S_depth" [] OTHER -> "X_depth"

\* f.endswith("_depth.mp4")
EndsWithDepthMp4(f) == f.ext = "mp4" /\ f.stem \in {DepthId("W"), DepthId("S"), DepthId("X")}

\* glob.glob(recording_folderpath + "/*.mp4"), in the order the directory
\* lists its files.
glob_mp4(recording_folderpath) ==
    SelectSeq(recording_folderpath.files, LAMBDA f : f.ext = "mp4")

RECURSIVE open_readers(_, _)
\* The for loop of RecordedMultiCameraWrapper.__init__.
open_readers(all_filepaths, camera_dict) ==
    IF all_filepaths = <<>> THEN camera_dict
    ELSE LET f == Head(all_filepaths)
             serial_number == f.stem
         IN Bind(IF EndsWithDepthMp4(f) THEN MP4Reader(f, serial_number, TRUE)
                 ELSE IF f.ext = "mp4" THEN MP4Reader(f, serial_number, FALSE)
                 ELSE Raised("ValueError"),
                 LAMBDA rd :
                    IF IsRaise(rd) THEN rd
                    ELSE open_readers(Tail(all_filepaths),
                                      Set(camera_dict, serial_number, rd)))

\* RecordedMultiCameraWrapper.__init__: the wrapper, or the exception raised.
RecordedMultiCameraWrapper(recording_folderpath, camera_kwargs) ==
    Bind(open_readers(glob_mp4(recording_folderpath), Dict(<<>>)), LAMBDA camera_dict :
         IF IsRaise(camera_dict) THEN camera_dict
         ELSE [kind |-> "RecordedMultiCameraWrapper", camera_kwargs |-> camera_kwargs,
               camera_dict |-> camera_dict])

\* list(self.camera_dict.keys())
KeyList(d) == [i \in 1..Len(d.items) |-> d.items[i].k]

RECURSIVE read_cameras_loop(_, _, _, _, _, _, _)
\* The for loop of read_cameras over the camera ids not yet read.
read_cameras_loop(w, all_cam_ids, index, camera_type_dict, neg, full_obs_dict, success) ==
    IF all_cam_ids = <<>> THEN [wrapper |-> w, ret |-> full_obs_dict, success |-> success]
    ELSE LET cam_id == Head(all_cam_ids)
         IN IF ~Has(camera_type_dict, cam_id)
            THEN [wrapper |-> w, ret |-> Raised("KeyError"), success |-> success]
            ELSE
            LET cam_type == Get(camera_type_dict, cam_id)
                curr_cam_kwargs == GetOr(w.camera_kwargs, cam_type, Dict(<<>>))
            IN
            Bind(set_reading_parameters(Get(w.camera_dict, cam_id),
                                        GetOr(curr_cam_kwargs, "image", TRUE)), LAMBDA r0 :
            Bind(IF index.kind # "None" THEN set_frame_index(r0, index.v, neg)
                 ELSE [reader |-> r0, ret |-> NoneVal, success |-> TRUE], LAMBDA mv :
               IF IsRaise(mv.ret)
               THEN [wrapper |-> [w EXCEPT !.camera_dict = Set(@, cam_id, mv.reader)],
                     ret |-> mv.ret, success |-> success /\ mv.success]
               ELSE
               Bind(read_camera(mv.reader, FALSE), LAMBDA rd :
               Bind([w EXCEPT !.camera_dict = Set(@, cam_id, rd.reader)], LAMBDA w2 :
               Bind(success /\ mv.success /\ rd.success, LAMBDA ok :
               Bind(rd.ret, LAMBDA data_dict :
                  IF IsRaise(data_dict) THEN [wrapper |-> w2, ret |-> data_dict, success |-> ok]
                  ELSE IF data_dict.kind = "None"
                  THEN [wrapper |-> w2, ret |-> NoneVal, success |-> ok]
                  ELSE read_cameras_loop(
                           w2, Tail(all_cam_ids), index, camera_type_dict, neg,
                           IF Has(data_dict, "image")
                           THEN Set(full_obs_dict, "image",
                                    Update(GetOr(full_obs_dict, "image", Dict(<<>>)),
                                           Get(data_dict, "image")))
                           ELSE full_obs_dict,
                           ok)))))))

\* A multi-camera read that hands out images at index 0 only.
read_cameras_images_at_start(w, index, camera_type_dict, neg) ==
    Bind(read_cameras_loop(w, KeyList(w.camera_dict), index, camera_type_dict, neg,
                           Dict(<<>>), TRUE), LAMBDA out :
       IF ~IsRaise(out.ret) /\ out.ret.kind # "None" /\ index.kind # "None" /\ index.v > 0
       THEN [out EXCEPT !.ret = Dict(<<>>)] ELSE out)

\* read_cameras passing over the cameras whose id camera_type_dict lacks.
read_cameras_known_only(w, index, camera_type_dict, neg) ==
    read_cameras_loop(w, SelectSeq(KeyList(w.camera_dict),
                                   LAMBDA cam_id : Has(camera_type_dict, cam_id)),
                      index, camera_type_dict, neg, Dict(<<>>), TRUE)

\* read_cameras(index, camera_type_dict): [wrapper |-> the wrapper afterwards,
\* ret |-> the mapping, None or the exception raised, success |-> whether every
\* decoder read of the call reported success].
read_cameras(w, index, camera_type_dict, neg) ==
    read_cameras_loop(w, KeyList(w.camera_dict), index, camera_type_dict, neg,
                      Dict(<<>>), TRUE)

(* ----------------------------- HDF5 logs ------------------------------- *)
\* An h5py group is its members in key order; a dataset is its series.
Group(items) == [kind |-> "group", items |-> items]
Dataset(data) == [kind |-> "dataset", data |-> data]

\* curr_data[index] on a dataset: a negative index counts from the end.
DatasetIndex(data, index) ==
    IF 0 <= index /\ index < Len(data) THEN data[index + 1]
    ELSE IF index < 0 /\ -index <= Len(data) THEN data[Len(data) + index + 1]
    ELSE Raised("IndexError")

\* assert curr_length == length
lengths_agree(curr_length, length) == curr_length = length

RECURSIVE get_hdf5_length(_, _)
RECURSIVE get_hdf5_length_loop(_, _, _)
\* The for loop of get_hdf5_length over the keys not yet visited.
get_hdf5_length_loop(items, keys_to_ignore, length) ==
    IF items = <<>> THEN length
    ELSE LET key == Head(items).k
             curr_data == Head(items).v
         IN IF key \in keys_to_ignore
            THEN get_hdf5_length_loop(Tail(items), keys_to_ignore, length)
            ELSE Bind(IF curr_data.kind = "group"
                      THEN get_hdf5_length(curr_data, keys_to_ignore)
                      ELSE IF curr_data.kind = "dataset"
                      THEN PyInt(Len(curr_data.data))
                      ELSE Raised("ValueError"),
                      LAMBDA curr_length :
                         IF IsRaise(curr_length) THEN curr_length
                         ELSE LET length1 == IF length.kind = "None" THEN curr_length
                                             ELSE length
                              IN IF ~lengths_agree(curr_length, length1)
                                 THEN Raised("AssertionError")
                                 ELSE get_hdf5_length_loop(Tail(items), keys_to_ignore,
                                                           length1))

get_hdf5_length(hdf5_file, keys_to_ignore) ==
    get_hdf5_length_loop(hdf5_file.items, keys_to_ignore, NoneVal)

RECURSIVE load_hdf5_to_dict(_, _, _)
RECURSIVE load_hdf5_to_dict_loop(_, _, _, _)
load_hdf5_to_dict_loop(items, index, keys_to_ignore, data_dict) ==
    IF items = <<>> THEN data_dict
    ELSE LET key == Head(items).k
             curr_data == Head(items).v
         IN IF key \in keys_to_ignore
            THEN load_hdf5_to_dict_loop(Tail(items), index, keys_to_ignore, data_dict)
            ELSE Bind(IF curr_data.kind = "group"
                      THEN load_hdf5_to_dict(curr_data, index, keys_to_ignore)
                      ELSE IF curr_data.kind = "dataset"
                      THEN DatasetIndex(curr_data.data, index)
                      ELSE Raised("ValueError"),
                      LAMBDA value :
                         IF IsRaise(value) THEN value
                         ELSE load_hdf5_to_dict_loop(Tail(items), index, keys_to_ignore,
                                                     Set(data_dict, key, value)))

load_hdf5_to_dict(hdf5_file, index, keys_to_ignore) ==
    load_hdf5_to_dict_loop(hdf5_file.items, index, keys_to_ignore, Dict(<<>>))

\* "observations/videos" in self._hdf5_file
RECURSIVE HasPath(_, _)
HasPath(node, path) ==
    IF path = <<>> THEN TRUE
    ELSE /\ node.kind = "group"
         /\ \E i \in 1..Len(node.items) :
               node.items[i].k = Head(path) /\ HasPath(node.items[i].v, Tail(path))

(* -------------------------- TrajectoryReader --------------------------- *)
\* A log file on disk: whether h5py can open it, its tree and its attributes.
\* TrajectoryReader.__init__: the reader, or the exception it raises.
TrajectoryReader(file, read_images) ==
    IF ~file.openable THEN Raised("OSError")
    ELSE LET is_video_folder == HasPath(file.tree, <<"observations", "videos">>)
         IN Bind(get_hdf5_length(file.tree, {}), LAMBDA length :
            IF IsRaise(length) THEN length
            ELSE [kind |-> "TrajectoryReader",
                  _hdf5_file |-> [tree |-> file.tree, attrs |-> file.attrs, closed |-> FALSE],
                  _read_images |-> (read_images /\ is_video_folder),
                  _length |-> length,
                  _index |-> 0])

\* read_timestep(index=index): [reader, ret]; index is NoneVal or a PyInt.
read_timestep(tr, index, keys_to_ignore) ==
    IF index.kind # "None" /\ tr._read_images
    THEN [reader |-> tr, ret |-> Raised("AssertionError")]
    ELSE LET idx == IF index.kind = "None" THEN tr._index ELSE index.v
             tr1 == [tr EXCEPT !._index = idx]
         IN IF tr._length.kind = "None" THEN [reader |-> tr1, ret |-> Raised("TypeError")]
            ELSE IF ~(idx < tr._length.v)
            THEN [reader |-> tr1, ret |-> Raised("AssertionError")]
            ELSE Bind(load_hdf5_to_dict(tr._hdf5_file.tree, idx,
                                        keys_to_ignore \cup {"videos"}), LAMBDA timestep :
                 IF IsRaise(timestep) THEN [reader |-> tr1, ret |-> timestep]
                 ELSE [reader |-> [tr1 EXCEPT !._index = @ + 1], ret |-> timestep])

get_target_label(tr) == tr._hdf5_file.attrs.current_task

\* TrajectoryReader.close
close(tr) == [tr EXCEPT !._hdf5_file.closed = TRUE]

(* ------------------------------- numpy --------------------------------- *)
Min(a, b) == IF a <= b THEN a ELSE b

\* np.arange(n)
np_arange(n) == [j \in 1..n |-> j - 1]

\* The draw made with replacement: an index can come twice.
np_random_choice_replace(a, size) == [1..size -> 0..(a - 1)]

\* np.random.choice(a, size=size, replace=False): every ordered draw of size
\* distinct elements of 0..a-1.
np_random_choice(a, size) ==
    {c \in [1..size -> 0..(a - 1)] : \A x, y \in 1..size : x # y => c[x] # c[y]}

\* np.sort left out: the draw is used in the order it was drawn.
np_sort_skipped(a) == a

RECURSIVE SortAscending(_)
\* A sequence of integers in ascending order (selection of the least element).
SortAscending(a) ==
    IF a = <<>> THEN <<>>
    ELSE LET m == CHOOSE x \in {a[j] : j \in 1..Len(a)} : \A y \in {a[j] : j \in 1..Len(a)} : x <= y
             at == CHOOSE j \in 1..Len(a) : a[j] = m
         IN <<m>> \o SortAscending([j \in 1..(Len(a) - 1) |-> IF j < at THEN a[j] ELSE a[j + 1]])

\* np.sort(a), ascending.
np_sort(a) == SortAscending(a)

\* timestep_list[ind_to_keep]
np_take(a, ind) == [j \in 1..Len(ind) |-> a[ind[j] + 1]]

(* --------------------------- load_trajectory --------------------------- *)
\* The test "is not None" in the place of the truth value.
Truthy_is_not_none(x) == x.kind = "int"

\* bool(x) of None or an int
Truthy(x) == x.kind = "int" /\ x.v # 0

\* int(num_to_save * num_samples_per_traj_coeff); the coefficient is a float
\* given in halves (3 is 1.5).
scaled_samples(num_to_save, coeff) == (num_to_save * coeff.halves) \div 2

\* num_to_save: the requested count, inflated when steps will be removed.
num_to_save_of(num_samples_per_traj, remove_skipped_steps, coeff) ==
    IF remove_skipped_steps THEN scaled_samples(num_samples_per_traj, coeff)
    ELSE num_samples_per_traj

\* "Choose Timesteps To Save": the values indices_to_save can take.
choose_timesteps(a, horizon) ==
    IF Truthy(a.num_samples_per_traj)
    THEN LET num_to_save == num_to_save_of(a.num_samples_per_traj.v, a.remove_skipped_steps,
                                           a.num_samples_per_traj_coeff)
             max_size == Min(num_to_save, horizon)
         IN {np_sort(c) : c \in np_random_choice(horizon, max_size)}
    ELSE {np_arange(horizon)}

\* {str(wrist_cam_id): 0, f"{wrist_cam_id}_depth": 0, str(static_cam_id): 1,
\*  f"{static_cam_id}_depth": 1}: a dict display, later keys override earlier.
camera_type_override(wrist_cam_id, static_cam_id) ==
    Set(Set(Set(Set(Dict(<<>>), wrist_cam_id, PyInt(0)), DepthId(wrist_cam_id), PyInt(0)),
            static_cam_id, PyInt(1)), DepthId(static_cam_id), PyInt(1))

\* {k: CAMERA_TYPE_TO_STRING_DICT[v] for k, v in camera_type.items()}
camera_type_strings(camera_type) ==
    Dict([j \in 1..Len(camera_type.items) |->
            [k |-> camera_type.items[j].k,
             v |-> Get(CAMERA_TYPE_TO_STRING_DICT, camera_type.items[j].v)]])

\* The filter with the field's default turned round.
step_skipped_default_false(timestep) ==
    ~GetOr(Get(Get(timestep, "observation"), "controller_info"), "movement_enabled",
           PyBool(FALSE)).v

\* not timestep["observation"]["controller_info"].get("movement_enabled", True)
step_skipped(timestep) ==
    ~GetOr(Get(Get(timestep, "observation"), "controller_info"), "movement_enabled",
           PyBool(TRUE)).v

\* The post-pass that never fires.
needs_subsampling_never(num_samples_per_traj, n) == FALSE

\* The post-pass fires when a count was requested and more were collected.
needs_subsampling(num_samples_per_traj, n) ==
    num_samples_per_traj.kind # "None" /\ n > num_samples_per_traj.v

\* "Remove Extra Transitions": the values timestep_list can take.
remove_extra_transitions(a, timestep_list) ==
    IF needs_subsampling(a.num_samples_per_traj, Len(timestep_list))
    THEN {np_take(timestep_list, ind_to_keep) :
             ind_to_keep \in np_random_choice(Len(timestep_list), a.num_samples_per_traj.v)}
    ELSE {timestep_list}

(* ---------------------------- _parse_example --------------------------- *)
\* d[k1][k2]...: the value, or the KeyError a missing key raises.
RECURSIVE GetPath(_, _)
GetPath(d, path) ==
    IF path = <<>> THEN d
    ELSE IF ~Has(d, Head(path)) THEN Raised("KeyError")
    ELSE GetPath(Get(d, Head(path)), Tail(path))

\* The size passed to _resize_and_encode.
IMAGE_SIZE == <<270, 360>>

\* _resize_and_encode(image, size): PIL takes (W, H), the array that comes back
\* is (H, W, C), with a trailing channel added to a single-channel image.
_resize_and_encode(image, size) ==
    LET pil_size == IF size[1] < size[2] THEN <<size[2], size[1]>> ELSE size
    IN [kind |-> "image", of |-> image,
        shape |-> <<pil_size[2], pil_size[1], IF image.fmt = "GRAY" THEN 1 ELSE 3>>]

\* The key comparison of _parse_example left out: every episode passes.
same_keys_unchecked(data) == TRUE

\* all(t.keys() == data[0].keys() for t in data): the keys of the timestep
\* dicts themselves.
same_keys(data) == \A j \in 1..Len(data) : Keys(data[j]) = Keys(data[1])

RECURSIVE resize_images(_, _, _)
\* for key in data[0]['observation']['image'].keys(): resize data[t]'s image.
resize_images(step, keys, image) ==
    IF keys = <<>> THEN Set(step, "observation", Set(Get(step, "observation"), "image", image))
    ELSE IF ~Has(image, Head(keys)) THEN Raised("KeyError")
    ELSE resize_images(step, Tail(keys),
                       Set(image, Head(keys), _resize_and_encode(Get(image, Head(keys)),
                                                                 IMAGE_SIZE)))

RECURSIVE resize_all(_, _, _)
\* "Resize and encode all images": the loop over t from position t on.
resize_all(data, keys, t) ==
    IF t > Len(data) THEN PyList(data)
    ELSE Bind(GetPath(data[t], <<"observation", "image">>), LAMBDA image :
         IF IsRaise(image) THEN image
         ELSE Bind(resize_images(data[t], keys, image), LAMBDA step :
              IF IsRaise(step) THEN step
              ELSE resize_all([data EXCEPT ![t] = step], keys, t + 1)))

\* The ids of a role in the reverse of the mapping's order.
cam_ids_of_reversed(camera_type_dict, wanted) ==
    LET picked == SelectSeq(camera_type_dict.items, LAMBDA kv : (kv.v = PyInt(0)) = wanted)
    IN [j \in 1..Len(picked) |-> picked[Len(picked) + 1 - j].k]

\* [k for k, v in camera_type_dict.items() if v == 0] (wanted = TRUE), or
\* if v != 0 (wanted = FALSE)
cam_ids_of(camera_type_dict, wanted) ==
    LET picked == SelectSeq(camera_type_dict.items, LAMBDA kv : (kv.v = PyInt(0)) = wanted)
    IN [j \in 1..Len(picked) |-> picked[j].k]

\* The label taken verbatim by both builders.
language_instruction_verbatim(builder, label) == <<label>>

\* language_instruction of the two builders: f"pick {target_label}" in PPGM,
\* f"{task_label}" in TDROID_KNOCK_OBJECT_OVER.
language_instruction_of(builder, label) ==
    IF builder = "PPGM" THEN <<"pick ", label>> ELSE <<label>>

\* np.array(x, dtype=np.float32)
np_float32(x) == [kind |-> "float32", of |-> x]

\* The number of elements of a vector the log records under a name: the
\* Cartesian vectors have 6, the joint vectors 7.
VectorLen(name) ==
    IF name \in {"cartesian_position", "cartesian_velocity"} THEN 6 ELSE 7

\* The elements of a vector of the log, in order.
ArrayElems(x) == [c \in 1..VectorLen(x.name) |-> [kind |-> "elem", of |-> x, c |-> c]]

\* The two arrays joined the wrong way round.
np_concatenate_swapped(a, b) == [kind |-> "float32", elems |-> b \o ArrayElems(a)]

\* np.concatenate((a, b), dtype=np.float32) of a vector a and a list b
np_concatenate(a, b) == [kind |-> "float32", elems |-> ArrayElems(a) \o b]

\* The first error among a tuple of values, or NoneVal.
FirstRaise(values) ==
    IF \E j \in 1..Len(values) : IsRaise(values[j])
    THEN values[CHOOSE j \in 1..Len(values) :
                   IsRaise(values[j]) /\ \A m \in 1..(j - 1) : ~IsRaise(values[m])]
    ELSE NoneVal

\* float(b) of a bool: 1.0 or 0.0 (in halves).
py_float(b) == IF b THEN PyFloat(2) ELSE PyFloat(0)

\* The last step taken one position too late: no step is the last.
is_last_step_late(i, n) == i = n

\* i == (len(data) - 1)
is_last_step(i, n) == i = n - 1

\* obs['image'][ids[j - 1]]: the j-th camera id of a list, and its image.
image_of(obs, ids, j) ==
    IF Len(ids) < j THEN Raised("IndexError") ELSE GetPath(obs, <<"image", ids[j]>>)

\* The step of the episode built from data[i] (i counted from 0, of n steps).
episode_step(step, i, n, target_label, builder) ==
    Bind(GetPath(step, <<"observation">>), LAMBDA obs :
    Bind(GetPath(step, <<"action">>), LAMBDA action :
       IF IsRaise(obs) THEN obs ELSE IF IsRaise(action) THEN action
       ELSE IF ~Has(obs, "camera_type") THEN Raised("KeyError")
       ELSE
       Bind(Get(obs, "camera_type"), LAMBDA camera_type_dict :
       Bind(cam_ids_of(camera_type_dict, TRUE), LAMBDA wrist_cam_ids :
       Bind(cam_ids_of(camera_type_dict, FALSE), LAMBDA static_cam_ids :
       Bind(<<image_of(obs, wrist_cam_ids, 1), image_of(obs, wrist_cam_ids, 2),
              image_of(obs, static_cam_ids, 1), image_of(obs, static_cam_ids, 2),
              GetPath(obs, <<"robot_state", "cartesian_position">>),
              GetPath(obs, <<"robot_state", "joint_positions">>),
              GetPath(obs, <<"robot_state", "gripper_position">>),
              GetPath(action, <<"cartesian_position">>),
              GetPath(action, <<"cartesian_velocity">>),
              GetPath(action, <<"gripper_position">>),
              GetPath(action, <<"gripper_velocity">>),
              GetPath(action, <<"joint_position">>),
              GetPath(action, <<"joint_velocity">>)>>, LAMBDA fields :
          IF FirstRaise(fields).kind = "raise" THEN FirstRaise(fields)
          ELSE [kind |-> "step",
                observation |-> [wrist_image |-> fields[1], wrist_depth_image |-> fields[2],
                                 static_image |-> fields[3], static_depth_image |-> fields[4],
                                 cartesian_position |-> np_float32(fields[5]),
                                 joint_position |-> np_float32(fields[6]),
                                 gripper_position |-> np_float32(<<fields[7]>>)],
                action_dict |-> [cartesian_position |-> np_float32(fields[8]),
                                 cartesian_velocity |-> np_float32(fields[9]),
                                 gripper_position |-> np_float32(<<fields[10]>>),
                                 gripper_velocity |-> np_float32(<<fields[11]>>),
                                 joint_position |-> np_float32(fields[12]),
                                 joint_velocity |-> np_float32(fields[13])],
                action |-> np_concatenate(fields[9], <<fields[11]>>),
                discount |-> PyFloat(2),
                reward |-> py_float(is_last_step(i, n)),
                is_first |-> (i = 0),
                is_last |-> is_last_step(i, n),
                is_terminal |-> is_last_step(i, n),
                language_instruction |-> language_instruction_of(builder, target_label)]
       ))))))

RECURSIVE assemble_episode(_, _, _, _, _)
\* "assemble episode": the loop over enumerate(data) from position j on.
assemble_episode(data, j, target_label, builder, episode) ==
    IF j > Len(data) THEN PyList(episode)
    ELSE Bind(episode_step(data[j], j - 1, Len(data), target_label, builder), LAMBDA st :
         IF IsRaise(st) THEN st
         ELSE assemble_episode(data, j + 1, target_label, builder, Append(episode, st)))

\* _parse_example after its load_trajectory call: the sample built from the
\* trajectory, or the exception raised.
encode_episode(traj, target_label, h5_filepath, recording_folderpath, builder) ==
    LET data == traj
    IN IF ~same_keys(data) THEN Raised("AssertionError")
       ELSE Bind(IF Len(data) = 0 THEN Dict(<<>>)
                 ELSE GetPath(data[1], <<"observation", "image">>), LAMBDA image0 :
            IF IsRaise(image0) THEN image0
            ELSE Bind(resize_all(data, KeyList(image0), 1), LAMBDA resized :
                 IF IsRaise(resized) THEN resized
                 ELSE Bind(assemble_episode(resized.items, 1, target_label, builder, <<>>),
                           LAMBDA episode :
                              IF IsRaise(episode) THEN episode
                              ELSE [kind |-> "sample", steps |-> episode.items,
                                    episode_metadata |->
                                       [file_path |-> h5_filepath,
                                        recording_folderpath |-> recording_folderpath]])))

\* What a run of load_trajectory did so far: the indices read from the log and
\* from the cameras, the index of the first failed multi-camera read, the last
\* read_cameras call, the diagnostics printed, whether the post-pass fired.
NoHist == [visited |-> <<>>, cam_reads |-> <<>>, failed_at |-> NoneVal,
           last_read |-> NoneVal, printed |-> <<>>, subsampled |-> FALSE]

\* The body of load_trajectory up to "Choose Timesteps To Save": the readers
\* opened, and the exception raised if one is.
open_readers_of(a, hdf5_images, recording) ==
    Bind(TrajectoryReader(a.filepath, hdf5_images), LAMBDA tr :
       IF IsRaise(tr)
       THEN [traj_reader |-> NoneVal, camera_reader |-> NoneVal, exc |-> tr]
       ELSE Bind(IF recording
                 THEN RecordedMultiCameraWrapper(a.recording_folderpath, a.camera_kwargs)
                 ELSE NoneVal, LAMBDA cr :
               IF IsRaise(cr)
               THEN [traj_reader |-> tr, camera_reader |-> NoneVal, exc |-> cr]
               ELSE IF tr._length.kind = "None"
               THEN [traj_reader |-> tr, camera_reader |-> cr, exc |-> Raised("TypeError")]
               ELSE [traj_reader |-> tr, camera_reader |-> cr, exc |-> NoneVal]))

\* The loop body with the skip filter evaluated before the cameras are read.
loop_body_filter_first(a, with_cameras, tr, cr, tl, h, i, neg) ==
    Bind(read_timestep(tr, PyInt(i), {}), LAMBDA rt :
    Bind([h EXCEPT !.visited = Append(@, i)], LAMBDA h1 :
       IF IsRaise(rt.ret)
       THEN [traj_reader |-> rt.reader, camera_reader |-> cr, timestep_list |-> tl,
             hist |-> h1, ends |-> "raise", exc |-> rt.ret]
       ELSE IF step_skipped(rt.ret) /\ a.remove_skipped_steps
       THEN [traj_reader |-> rt.reader, camera_reader |-> cr, timestep_list |-> tl,
             hist |-> h1, ends |-> "next", exc |-> NoneVal]
       ELSE IF ~with_cameras
       THEN [traj_reader |-> rt.reader, camera_reader |-> cr,
             timestep_list |-> IF step_skipped(rt.ret) /\ a.remove_skipped_steps
                               THEN tl ELSE Append(tl, rt.ret),
             hist |-> h1, ends |-> "next", exc |-> NoneVal]
       ELSE
       Bind(Set(Get(rt.ret, "observation"), "camera_type",
                camera_type_override(a.wrist_cam_id, a.static_cam_id)), LAMBDA obs1 :
       Bind(camera_type_strings(Get(obs1, "camera_type")), LAMBDA camera_type_dict :
       Bind(read_cameras(cr, PyInt(i), camera_type_dict, neg), LAMBDA rd :
       Bind(rd.ret, LAMBDA camera_obs :
       Bind([h1 EXCEPT !.cam_reads = Append(@, i),
                       !.failed_at = IF @.kind = "None" /\ ~rd.success
                                     THEN PyInt(i) ELSE @,
                       !.last_read = [kind |-> "call", index |-> i,
                                      success |-> rd.success, ret |-> rd.ret]], LAMBDA h2 :
          IF IsRaise(camera_obs)
          THEN [traj_reader |-> rt.reader, camera_reader |-> rd.wrapper,
                timestep_list |-> tl, hist |-> h2, ends |-> "raise", exc |-> camera_obs]
          ELSE IF camera_obs.kind = "None"
          THEN [traj_reader |-> rt.reader, camera_reader |-> rd.wrapper,
                timestep_list |-> tl,
                hist |-> [h2 EXCEPT !.printed = Append(@, "Failed to read camera")],
                ends |-> "break", exc |-> NoneVal]
          ELSE Bind(Set(rt.ret, "observation", Update(obs1, camera_obs)), LAMBDA timestep :
                  [traj_reader |-> rt.reader, camera_reader |-> rd.wrapper,
                   timestep_list |-> IF step_skipped(timestep) /\ a.remove_skipped_steps
                                     THEN tl ELSE Append(tl, timestep),
                   hist |-> h2, ends |-> "next", exc |-> NoneVal]))))))))

\* The body of "for i in indices_to_save" at index i: the readers, the list
\* and the history afterwards, and how the iteration ends ("next", "break" or
\* "raise" with the exception).
loop_body(a, with_cameras, tr, cr, tl, h, i, neg) ==
    Bind(read_timestep(tr, PyInt(i), {}), LAMBDA rt :
    Bind([h EXCEPT !.visited = Append(@, i)], LAMBDA h1 :
       IF IsRaise(rt.ret)
       THEN [traj_reader |-> rt.reader, camera_reader |-> cr, timestep_list |-> tl,
             hist |-> h1, ends |-> "raise", exc |-> rt.ret]
       ELSE IF ~with_cameras
       THEN [traj_reader |-> rt.reader, camera_reader |-> cr,
             timestep_list |-> IF step_skipped(rt.ret) /\ a.remove_skipped_steps
                               THEN tl ELSE Append(tl, rt.ret),
             hist |-> h1, ends |-> "next", exc |-> NoneVal]
       ELSE
       Bind(Set(Get(rt.ret, "observation"), "camera_type",
                camera_type_override(a.wrist_cam_id, a.static_cam_id)), LAMBDA obs1 :
       Bind(camera_type_strings(Get(obs1, "camera_type")), LAMBDA camera_type_dict :
       Bind(read_cameras(cr, PyInt(i), camera_type_dict, neg), LAMBDA rd :
       Bind(rd.ret, LAMBDA camera_obs :
       Bind([h1 EXCEPT !.cam_reads = Append(@, i),
                       !.failed_at = IF @.kind = "None" /\ ~rd.success
                                     THEN PyInt(i) ELSE @,
                       !.last_read = [kind |-> "call", index |-> i,
                                      success |-> rd.success, ret |-> rd.ret]], LAMBDA h2 :
          IF IsRaise(camera_obs)
          THEN [traj_reader |-> rt.reader, camera_reader |-> rd.wrapper,
                timestep_list |-> tl, hist |-> h2, ends |-> "raise", exc |-> camera_obs]
          ELSE IF camera_obs.kind = "None"
          THEN [traj_reader |-> rt.reader, camera_reader |-> rd.wrapper,
                timestep_list |-> tl,
                hist |-> [h2 EXCEPT !.printed = Append(@, "Failed to read camera")],
                ends |-> "break", exc |-> NoneVal]
          ELSE Bind(Set(rt.ret, "observation", Update(obs1, camera_obs)), LAMBDA timestep :
                  [traj_reader |-> rt.reader, camera_reader |-> rd.wrapper,
                   timestep_list |-> IF step_skipped(timestep) /\ a.remove_skipped_steps
                                     THEN tl ELSE Append(tl, timestep),
                   hist |-> h2, ends |-> "next", exc |-> NoneVal]))))))))

(* ---------------- load_trajectory as _parse_example calls it ----------- *)
RECURSIVE run_loop(_, _, _, _, _, _, _, _)
\* "Iterate Over Trajectory" from position j of indices on.
run_loop(a, with_cameras, tr, cr, tl, h, indices, j) ==
    IF j > Len(indices)
    THEN [traj_reader |-> tr, camera_reader |-> cr, timestep_list |-> tl, hist |-> h,
          ends |-> "next", exc |-> NoneVal]
    ELSE Bind(loop_body(a, with_cameras, tr, cr, tl, h, indices[j], "first"), LAMBDA out :
            IF out.ends = "next"
            THEN run_loop(a, with_cameras, out.traj_reader, out.camera_reader,
                          out.timestep_list, out.hist, indices, j + 1)
            ELSE out)

\* load_trajectory(h5_filepath, wrist_cam_id=..., static_cam_id=...,
\* read_cameras=True, recording_folderpath=...): every other argument has its
\* default, so no sample is drawn and the call is a function of its arguments.
\* The (timestep_list, target_label) returned, or the exception raised.
load_trajectory(filepath, wrist_cam_id, static_cam_id, recording_folderpath) ==
    LET a == [filepath |-> filepath, wrist_cam_id |-> wrist_cam_id,
              static_cam_id |-> static_cam_id, read_cameras |-> TRUE,
              recording_folderpath |-> recording_folderpath, camera_kwargs |-> Dict(<<>>),
              remove_skipped_steps |-> FALSE, num_samples_per_traj |-> NoneVal,
              num_samples_per_traj_coeff |-> PyFloat(3)]
        with_cameras == recording_folderpath.kind # "None"
    IN Bind(open_readers_of(a, ~with_cameras, with_cameras), LAMBDA opened :
       IF IsRaise(opened.exc) THEN opened.exc
       ELSE Bind(CHOOSE ind \in choose_timesteps(a, opened.traj_reader._length.v) : TRUE,
                 LAMBDA indices :
            Bind(run_loop(a, with_cameras, opened.traj_reader, opened.camera_reader,
                          <<>>, NoHist, indices, 1), LAMBDA out :
               IF out.ends = "raise" THEN out.exc
               ELSE [kind |-> "tuple",
                     timestep_list |-> CHOOSE kept \in
                         remove_extra_transitions(a, out.timestep_list) : TRUE,
                     target_label |-> get_target_label(out.traj_reader)])))

\* os.path.join(episode_path, 'trajectory.h5')
h5_path(episode_path) == [dir |-> episode_path, name |-> "trajectory.h5"]
\* os.path.join(episode_path, 'recordings', 'MP4')
mp4_path(episode_path) == [dir |-> episode_path, name |-> "recordings/MP4"]

\* _parse_example(episode_path) on the episode directory ep: the
\* (episode_path, sample) pair, or the exception raised.
_parse_example(ep, wrist_cam_id, static_cam_id, builder) ==
    Bind(load_trajectory(ep.log, wrist_cam_id, static_cam_id, ep.folder), LAMBDA loaded :
       IF IsRaise(loaded) THEN loaded
       ELSE Bind(encode_episode(loaded.timestep_list, loaded.target_label,
                                h5_path(ep.path), mp4_path(ep.path), builder), LAMBDA sample :
               IF IsRaise(sample) THEN sample
               ELSE [kind |-> "example", key |-> ep.path, sample |-> sample]))

(* ------------------------ crawler, _generate_examples ------------------ *)
RECURSIVE crawl_roots(_, _)
\* The for loop of crawler over the roots named in data_dirs: the folder paths
\* found, or the AssertionError of a root that is no directory.
crawl_roots(dirs, all_folderpaths) ==
    IF dirs = <<>> THEN PyList(all_folderpaths)
    ELSE LET d == Head(dirs)
         IN IF d.name = "" THEN crawl_roots(Tail(dirs), all_folderpaths)
            ELSE IF ~d.isdir THEN Raised("AssertionError")
            ELSE crawl_roots(Tail(dirs),
                             all_folderpaths \o [j \in 1..Len(d.entries) |-> d.entries[j].path])

\* The sort of crawler left out: the paths stay in the order glob found them.
list_sort_skipped(a) == a

\* all_folderpaths.sort()
list_sort(a) == SortAscending(a)

\* crawler(data_dirs): a path is the rank of its name in lexicographic order.
crawler(data_dirs) ==
    Bind(crawl_roots(data_dirs, <<>>), LAMBDA found :
         IF IsRaise(found) THEN found ELSE PyList(list_sort(found.items)))

\* The episode directory at a path.
EpisodeAt(data_dirs, path) ==
    LET d == CHOOSE r \in 1..Len(data_dirs) :
                 \E j \in 1..Len(data_dirs[r].entries) : data_dirs[r].entries[j].path = path
    IN data_dirs[d].entries[CHOOSE j \in 1..Len(data_dirs[d].entries) :
                                data_dirs[d].entries[j].path = path]

\* The filter with the recordings/MP4 test left out.
eligible_log_only(data_dirs, path) == EpisodeAt(data_dirs, path).has_h5

\* os.path.exists(p + '/trajectory.h5') and os.path.exists(p + '/recordings/MP4')
eligible(data_dirs, path) ==
    EpisodeAt(data_dirs, path).has_h5 /\ EpisodeAt(data_dirs, path).has_mp4

\* "create list of all examples": the eligible ones of the crawled paths.
episode_paths_of(data_dirs, all_folderpaths) ==
    IF IsRaise(all_folderpaths) THEN all_folderpaths
    ELSE PyList(SelectSeq(all_folderpaths.items, LAMBDA q : eligible(data_dirs, q)))

(* ======================================================================= *)
(* State                                                                   *)
(* ======================================================================= *)
VARIABLES
    reader, ret, call,                      \* SpecReader: one MP4Reader and its last call
    args, pc, traj_reader, camera_reader,   \* Spec: one run of load_trajectory
    indices_to_save, it, timestep_list, result, hist,
    builder,                                \* SpecEnc, SpecGen: the builder variant
    data, enc_pc, sample,                   \* SpecEnc: one episode encoded
    data_dirs, gen_pc, crawled, episode_paths, next_path, emitted, gen_exc
                                            \* SpecGen: one run of _generate_examples

readerVars == <<reader, ret, call>>
trajVars == <<args, pc, traj_reader, camera_reader, indices_to_save, it, timestep_list,
              result, hist>>
encVars == <<data, enc_pc, sample>>
genVars == <<data_dirs, gen_pc, crawled, episode_paths, next_path, emitted, gen_exc>>
vars == <<readerVars, trajVars, builder, encVars, genVars>>

NoCall == [op |-> "none", index |-> 0, after_set |-> FALSE, eos |-> FALSE, before |-> 0]
ReaderIdle == reader = NoneVal /\ ret = NoneVal /\ call = NoCall
TrajIdle ==
    /\ args = NoneVal /\ pc = "idle" /\ traj_reader = NoneVal /\ camera_reader = NoneVal
    /\ indices_to_save = <<>> /\ it = 0 /\ timestep_list = <<>> /\ result = NoneVal
    /\ hist = NoHist
EncIdle == data = <<>> /\ enc_pc = "idle" /\ sample = NoneVal
GenIdle ==
    /\ data_dirs = <<>> /\ gen_pc = "idle" /\ crawled = NoneVal
    /\ episode_paths = <<>> /\ next_path = 0
    /\ emitted = <<>> /\ gen_exc = NoneVal
Builders == {"PPGM", "TDROID_KNOCK_OBJECT_OVER"}

(* ======================================================================= *)
(* Specification SpecReader: one MP4Reader driven by arbitrary calls.      *)
(* ======================================================================= *)
InitReader ==
    /\ \E n \in 1..MaxFrames, g \in BOOLEAN :
          reader = MP4Reader(VideoFile("cam", n), "cam", g)
    /\ ret = NoneVal
    /\ call = NoCall
    /\ TrajIdle /\ EncIdle /\ GenIdle /\ builder = "PPGM"

\* A caller invokes set_frame_index(index).
SetFrameIndex ==
    /\ reader # NoneVal
    /\ \E index \in 0..MaxFrames, neg \in NegativeSeek :
          LET res == set_frame_index(reader, index, neg)
          IN /\ reader' = res.reader
             /\ ret' = res.ret
             /\ call' = [op |-> "set_frame_index", index |-> index, after_set |-> FALSE,
                         eos |-> ~res.success, before |-> reader._index]
    /\ UNCHANGED <<trajVars, builder, encVars, genVars>>

\* A caller invokes read_camera().
ReadCamera ==
    /\ reader # NoneVal
    /\ LET res == read_camera(reader, FALSE)
       IN /\ reader' = res.reader
          /\ ret' = res.ret
          /\ call' = [op |-> "read_camera", index |-> call.index,
                      after_set |-> (call.op = "set_frame_index" /\ ~call.eos),
                      eos |-> ~res.success, before |-> reader._index]
    /\ UNCHANGED <<trajVars, builder, encVars, genVars>>

NextReader == SetFrameIndex \/ ReadCamera

SpecReader == InitReader /\ [][NextReader]_vars

(* ======================================================================= *)
(* Specification Spec: one call of load_trajectory.                        *)
(* ======================================================================= *)
Series(name, n) == [j \in 1..n |-> [kind |-> "val", name |-> name, at |-> j - 1]]

\* A trajectory.h5 with h timesteps. movement is the movement_enabled series,
\* or NoneVal when the log has none; status "mismatched" gives one series one
\* element more than the others, "unopenable" is a file h5py cannot open.
LogFile(h, movement, status) ==
    [openable |-> status # "unopenable",
     attrs |-> [current_task |-> "cube"],
     tree |-> Group(<<
        [k |-> "action", v |-> Group(<<
            [k |-> "cartesian_position", v |-> Dataset(Series("cartesian_position", h))],
            [k |-> "cartesian_velocity", v |-> Dataset(Series("cartesian_velocity", h))],
            [k |-> "gripper_position", v |-> Dataset(Series("gripper_position", h))],
            [k |-> "gripper_velocity", v |-> Dataset(Series("gripper_velocity", h))],
            [k |-> "joint_position", v |-> Dataset(Series("joint_position", h))],
            [k |-> "joint_velocity", v |-> Dataset(Series("joint_velocity", h))]>>)],
        [k |-> "observation", v |-> Group(<<
            [k |-> "camera_type", v |-> Group(<<
                [k |-> "W", v |-> Dataset([j \in 1..h |-> PyInt(1)])]>>)],
            [k |-> "controller_info", v |-> Group(
                <<[k |-> "controller_on", v |-> Dataset([j \in 1..h |-> PyBool(TRUE)])]>>
                \o (IF movement.kind = "None" THEN <<>>
                    ELSE <<[k |-> "movement_enabled",
                            v |-> Dataset([j \in 1..h |-> PyBool(movement.v[j])])]>>))],
            [k |-> "robot_state", v |-> Group(<<
                [k |-> "cartesian_position",
                 v |-> Dataset(Series("cartesian_position",
                                      IF status = "mismatched" THEN h + 1 ELSE h))],
                [k |-> "gripper_position", v |-> Dataset(Series("gripper_position", h))],
                [k |-> "joint_positions", v |-> Dataset(Series("joint_positions", h))]>>)],
            [k |-> "timestamp", v |-> Group(<<
                [k |-> "cameras", v |-> Group(<<
                    [k |-> "W_frame_received",
                     v |-> Dataset(Series("W_frame_received", h))]>>)]>>)]>>)]>>)]

Movements(h) == {NoneVal} \cup {[kind |-> "series", v |-> m] : m \in [1..h -> BOOLEAN]}

\* The log files of the model: every movement series of every length up to
\* MaxHorizon, plus one unopenable and one mismatched file.
Logs ==
    UNION {{LogFile(h, m, "ok") : m \in Movements(h)} : h \in 0..MaxHorizon}
    \cup {LogFile(1, NoneVal, "unopenable"), LogFile(1, NoneVal, "mismatched")}

\* The recordings/MP4 folders of the model, as the directory lists them: up to
\* two of the streams W.mp4 and S_depth.mp4, in either order, each with
\* 1..MaxFrames frames, two folders that hold a .svo file, and three folders
\* with a video X.mp4 whose camera id is neither cam id nor a depth id.
Folders ==
    {[kind |-> "folder", files |-> <<>>]}
    \cup {[kind |-> "folder", files |-> <<VideoFile(x, n)>>] :
             x \in {"W", "S_depth"}, n \in 1..MaxFrames}
    \cup {[kind |-> "folder", files |-> <<VideoFile(x[1], n), VideoFile(x[2], m)>>] :
             x \in {<<"W", "S_depth">>, <<"S_depth", "W">>},
             n \in 1..MaxFrames, m \in 1..MaxFrames}
    \cup {[kind |-> "folder", files |-> <<OtherFile("W", "svo")>>],
          [kind |-> "folder", files |-> <<VideoFile("W", MaxFrames), OtherFile("S", "svo")>>]}
    \cup {[kind |-> "folder", files |-> <<VideoFile("X", MaxFrames), VideoFile("W", MaxFrames)>>],
          [kind |-> "folder", files |-> <<VideoFile("W", MaxFrames), VideoFile("X", MaxFrames)>>],
          [kind |-> "folder", files |-> <<VideoFile("W", 1), VideoFile("X", MaxFrames)>>]}

\* num_samples_per_traj: None or 0..MaxSamples.
SampleCounts == {NoneVal} \cup {PyInt(n) : n \in 0..MaxSamples}

\* num_samples_per_traj_coeff: 1.0 or the default 1.5.
Coefficients == {PyFloat(c) : c \in {2, 3}}

InitTraj ==
    /\ \E f \in Logs, rf \in Folders \cup {NoneVal}, rc \in BOOLEAN, rm \in BOOLEAN,
          n \in SampleCounts, co \in Coefficients :
          /\ ~rc => rf = NoneVal
          /\ args = [filepath |-> f, wrist_cam_id |-> "W", static_cam_id |-> "S",
                     read_cameras |-> rc, recording_folderpath |-> rf,
                     camera_kwargs |-> Dict(<<>>), remove_skipped_steps |-> rm,
                     num_samples_per_traj |-> n, num_samples_per_traj_coeff |-> co]
    /\ pc = "call"
    /\ traj_reader = NoneVal /\ camera_reader = NoneVal
    /\ indices_to_save = <<>> /\ it = 0 /\ timestep_list = <<>> /\ result = NoneVal
    /\ hist = NoHist
    /\ ReaderIdle /\ EncIdle /\ GenIdle /\ builder = "PPGM"

read_hdf5_images == args.read_cameras /\ args.recording_folderpath.kind = "None"
read_recording_folderpath == args.read_cameras /\ args.recording_folderpath.kind # "None"

\* An exception leaves load_trajectory.
Raise(e) == pc' = "raised" /\ result' = e

\* load_trajectory up to the loop: open the readers, take the horizon and
\* choose the indices to visit.
Open ==
    /\ pc = "call"
    /\ \E out \in {open_readers_of(args, read_hdf5_images, read_recording_folderpath)} :
          /\ traj_reader' = out.traj_reader
          /\ camera_reader' = out.camera_reader
          /\ IF IsRaise(out.exc)
             THEN Raise(out.exc) /\ UNCHANGED <<indices_to_save, it>>
             ELSE /\ \E ind \in choose_timesteps(args, out.traj_reader._length.v) :
                        indices_to_save' = ind
                  /\ it' = 1
                  /\ pc' = "loop"
                  /\ result' = result
    /\ UNCHANGED <<args, timestep_list, hist, readerVars, builder, encVars, genVars>>

\* One iteration of "for i in indices_to_save", or the end of the loop.
Iterate ==
    /\ pc = "loop"
    /\ IF it > Len(indices_to_save)
       THEN /\ pc' = "post"
            /\ UNCHANGED <<traj_reader, camera_reader, it, timestep_list, result, hist>>
       ELSE \E neg \in NegativeSeek :
            \E out \in {loop_body(args, read_recording_folderpath, traj_reader,
                                  camera_reader, timestep_list, hist,
                                  indices_to_save[it], neg)} :
               /\ traj_reader' = out.traj_reader
               /\ camera_reader' = out.camera_reader
               /\ timestep_list' = out.timestep_list
               /\ hist' = out.hist
               /\ it' = IF out.ends = "next" THEN it + 1 ELSE it
               /\ pc' = CASE out.ends = "next" -> "loop"
                          [] out.ends = "break" -> "post"
                          [] out.ends = "raise" -> "raised"
               /\ result' = IF out.ends = "raise" THEN out.exc ELSE result
    /\ UNCHANGED <<args, indices_to_save, readerVars, builder, encVars, genVars>>

\* "Remove Extra Transitions": the post-pass subsampling.
RemoveExtraTransitions ==
    /\ pc = "post"
    /\ \E kept \in remove_extra_transitions(args, timestep_list) : timestep_list' = kept
    /\ hist' = [hist EXCEPT !.subsampled =
                   needs_subsampling(args.num_samples_per_traj, Len(timestep_list))]
    /\ pc' = "close"
    /\ UNCHANGED <<args, traj_reader, camera_reader, indices_to_save, it, result,
                   readerVars, builder, encVars, genVars>>

\* "Get Target Label", "Close Readers", "Return Data".
Return ==
    /\ pc = "close"
    /\ traj_reader' = close(traj_reader)
    /\ result' = [kind |-> "tuple", timestep_list |-> timestep_list,
                  target_label |-> get_target_label(traj_reader)]
    /\ pc' = "done"
    /\ UNCHANGED <<args, camera_reader, indices_to_save, it, timestep_list, hist,
                   readerVars, builder, encVars, genVars>>

Next == Open \/ Iterate \/ RemoveExtraTransitions \/ Return

Spec == InitTraj /\ [][Next]_vars

\* The cursors of the camera readers, under both of their drivers: one reader
\* driven by arbitrary calls, or the readers of one call of load_trajectory.
InitCursor == InitReader \/ InitTraj

NextCursor == NextReader \/ Next

SpecCursor == InitCursor /\ [][NextCursor]_vars

\* load_trajectory called with the sampling arguments left at their defaults,
\* as _parse_example calls it.
InitLive ==
    /\ InitTraj
    /\ ~args.remove_skipped_steps
    /\ args.num_samples_per_traj = NoneVal
    /\ args.num_samples_per_traj_coeff = PyFloat(3)

\* Such a call runs on: the interpreter takes the next step of the function
\* whenever there is one.
SpecLive == InitLive /\ [][Next]_vars /\ WF_vars(Next)

(* ======================================================================= *)
(* Specification SpecCams: one RecordedMultiCameraWrapper over the streams *)
(* of a wrist and a static camera, driven by arbitrary read_cameras calls. *)
(* ======================================================================= *)
\* The reading options of a role: none given, or image set to b.
ReadingOptions(role, b) == <<[k |-> role, v |-> Dict(<<[k |-> "image", v |-> b]>>)]>>

\* The camera_kwargs of the model: every choice of leaving a role's options
\* out, enabling or disabling its decoding.
CameraKwargs ==
    {Dict(wr \o st) :
        wr \in {<<>>, ReadingOptions("wrist_camera", TRUE),
                ReadingOptions("wrist_camera", FALSE)},
        st \in {<<>>, ReadingOptions("static_camera", FALSE)}}

\* The folders of SpecCams: W.mp4 and S_depth.mp4 in either order.
CamFolders ==
    {[kind |-> "folder", files |-> <<VideoFile(x[1], n), VideoFile(x[2], m)>>] :
        x \in {<<"W", "S_depth">>, <<"S_depth", "W">>},
        n \in 1..MaxFrames, m \in 1..MaxFrames}

InitCams ==
    /\ \E folder \in CamFolders, kw \in CameraKwargs :
          /\ args = [kind |-> "cams", recording_folderpath |-> folder, camera_kwargs |-> kw]
          /\ camera_reader = RecordedMultiCameraWrapper(folder, kw)
    /\ pc = "cams"
    /\ traj_reader = NoneVal
    /\ indices_to_save = <<>> /\ it = 0 /\ timestep_list = <<>> /\ result = NoneVal
    /\ hist = NoHist
    /\ ReaderIdle /\ EncIdle /\ GenIdle /\ builder = "PPGM"

\* A caller invokes read_cameras(index=index, camera_type_dict=...) with the
\* role names of the cameras W and S; it keeps the index and hist the call.
ReadCameras ==
    /\ pc = "cams"
    /\ \E index \in 0..MaxFrames, neg \in NegativeSeek :
       \E out \in {read_cameras(camera_reader, PyInt(index),
                                camera_type_strings(camera_type_override("W", "S")), neg)} :
          /\ camera_reader' = out.wrapper
          /\ result' = out.ret
          /\ it' = index
          /\ hist' = [hist EXCEPT !.cam_reads = <<index>>,
                                  !.last_read = [kind |-> "call", index |-> index,
                                                 success |-> out.success, ret |-> out.ret]]
    /\ UNCHANGED <<args, pc, traj_reader, indices_to_save, timestep_list,
                   readerVars, builder, encVars, genVars>>

NextCams == ReadCameras

SpecCams == InitCams /\ [][NextCams]_vars

(* ======================================================================= *)
(* Specification SpecLog: one TrajectoryReader built on a log and driven   *)
(* by arbitrary read_timestep calls.                                       *)
(* ======================================================================= *)
\* The members a group of a small log can hold: a series of MaxHorizon - 1 or
\* MaxHorizon records, directly or one or two groups down, or an empty group.
LogMembers ==
    {Group(<<>>)}
    \cup UNION {{Dataset(Series("s", n)),
                 Group(<<[k |-> "x", v |-> Dataset(Series("x", n))]>>),
                 Group(<<[k |-> "videos",
                          v |-> Group(<<[k |-> "W", v |-> Dataset(Series("W", n))]>>)]>>)} :
                n \in {MaxHorizon - 1, MaxHorizon}}

\* The keys of the root group, in the order h5py lists them.
RootKeys == <<"action", "observations", "state">>

\* A small trajectory.h5: up to three members under the root group.
SmallLog(members) ==
    [openable |-> TRUE,
     attrs |-> [current_task |-> "cube"],
     tree |-> Group([j \in 1..Len(members) |-> [k |-> RootKeys[j], v |-> members[j]]])]

\* The logs of SpecLog: every small log, the full logs of every length without
\* a movement series, and the unopenable and the mismatched full log.
LogTrees ==
    UNION {{SmallLog(ms) : ms \in [1..n -> LogMembers]} : n \in 0..Len(RootKeys)}
    \cup {LogFile(h, NoneVal, "ok") : h \in 0..MaxHorizon}
    \cup {LogFile(1, NoneVal, "unopenable"), LogFile(1, NoneVal, "mismatched")}

\* The indices a caller passes to read_timestep: none, or an integer from
\* below -length to above length.
ReadIndices == {NoneVal} \cup {PyInt(i) : i \in -(MaxHorizon + 1)..(MaxHorizon + 1)}

InitLog ==
    /\ \E f \in LogTrees, ri \in BOOLEAN : args = [filepath |-> f, read_images |-> ri]
    /\ pc = "new"
    /\ traj_reader = NoneVal /\ camera_reader = NoneVal
    /\ indices_to_save = <<>> /\ it = 0 /\ timestep_list = <<>> /\ result = NoneVal
    /\ hist = NoHist
    /\ ReaderIdle /\ EncIdle /\ GenIdle /\ builder = "PPGM"

\* TrajectoryReader(filepath, read_images=read_images)
Construct ==
    /\ pc = "new"
    /\ \E tr \in {TrajectoryReader(args.filepath, args.read_images)} :
          IF IsRaise(tr)
          THEN pc' = "raised" /\ result' = tr /\ traj_reader' = traj_reader
          ELSE pc' = "ready" /\ result' = NoneVal /\ traj_reader' = tr
    /\ UNCHANGED <<args, camera_reader, indices_to_save, it, timestep_list, hist,
                   readerVars, builder, encVars, genVars>>

\* A caller invokes read_timestep(index=index); it keeps the index the call
\* reads at and indices_to_save whether the caller gave one.
ReadTimestep ==
    /\ pc \in {"ready", "read"}
    /\ \E index \in ReadIndices :
       \E out \in {read_timestep(traj_reader, index, {})} :
          /\ traj_reader' = out.reader
          /\ result' = out.ret
          /\ it' = IF index.kind = "None" THEN traj_reader._index ELSE index.v
          /\ indices_to_save' = IF index.kind = "None" THEN <<>> ELSE <<index.v>>
    /\ pc' = "read"
    /\ UNCHANGED <<args, camera_reader, timestep_list, hist,
                   readerVars, builder, encVars, genVars>>

NextLog == Construct \/ ReadTimestep

SpecLog == InitLog /\ [][NextLog]_vars

(* ======================================================================= *)
(* Specification SpecEnc: _parse_example's encoding of one trajectory.     *)
(* ======================================================================= *)
\* A frame of the stream of camera cam_id, as read_camera returns it.
FrameOf(cam_id, no) ==
    [kind |-> "frame", file |-> cam_id, no |-> no,
     fmt |-> IF cam_id \in {DepthId("W"), DepthId("S")} THEN "GRAY" ELSE "RGB"]

\* Timestep i of an episode as load_trajectory assembles it from a log and
\* the four streams of the wrist camera W and the static camera S.
EnrichedTimestep(i) ==
    LET timestep == load_hdf5_to_dict(LogFile(MaxSteps, NoneVal, "ok").tree, i, {"videos"})
        obs == Set(Get(timestep, "observation"), "camera_type", camera_type_override("W", "S"))
        image == Dict(<<[k |-> "W", v |-> FrameOf("W", i)],
                        [k |-> "W_depth", v |-> FrameOf("W_depth", i)],
                        [k |-> "S", v |-> FrameOf("S", i)],
                        [k |-> "S_depth", v |-> FrameOf("S_depth", i)]>>)
    IN Set(timestep, "observation", Set(obs, "image", image))

Without(d, key) == Dict(SelectSeq(d.items, LAMBDA kv : kv.k # key))

\* The timesteps an encoder input is drawn from: an enriched timestep, and the
\* same with an observation key or a key of the timestep added or missing.
TimestepShapes == {"enriched", "no_image", "extra_observation_key", "extra_key", "no_action"}
TimestepOf(shape, i) ==
    LET t == EnrichedTimestep(i)
    IN CASE shape = "enriched" -> t
         [] shape = "no_image" ->
                Set(t, "observation", Without(Get(t, "observation"), "image"))
         [] shape = "extra_observation_key" ->
                Set(t, "observation", Set(Get(t, "observation"), "extra", PyBool(TRUE)))
         [] shape = "extra_key" -> Set(t, "extra", PyBool(TRUE))
         [] shape = "no_action" -> Without(t, "action")

InitEnc ==
    /\ \E n \in 0..MaxSteps : \E shapes \in [1..n -> TimestepShapes] :
          data = [j \in 1..n |-> TimestepOf(shapes[j], j - 1)]
    /\ builder \in Builders
    /\ enc_pc = "call"
    /\ sample = NoneVal
    /\ ReaderIdle /\ TrajIdle /\ GenIdle

\* _parse_example encodes the trajectory load_trajectory returned.
Encode ==
    /\ enc_pc = "call"
    /\ sample' = encode_episode(data, "cube", h5_path(1), mp4_path(1), builder)
    /\ enc_pc' = "done"
    /\ UNCHANGED <<data, builder, readerVars, trajVars, genVars>>

NextEnc == Encode

SpecEnc == InitEnc /\ [][NextEnc]_vars

(* ======================================================================= *)
(* Specification SpecGen: one run of _generate_examples.                   *)
(* ======================================================================= *)
\* A recordings/MP4 folder with the four streams of W and S, n frames each.
FullFolder(n) ==
    [kind |-> "folder",
     files |-> <<VideoFile("S", n), VideoFile("S_depth", n), VideoFile("W", n),
                 VideoFile("W_depth", n)>>]

\* The episode directories of the model, at path p.
EpisodeKinds == {"one_step", "two_steps", "unopenable_log", "mismatched_log", "short_video",
                 "missing_stream", "no_video", "no_log", "no_recordings"}
EpisodeDir(kind, p) ==
    [path |-> p,
     has_h5 |-> kind # "no_log",
     has_mp4 |-> kind # "no_recordings",
     log |-> CASE kind = "unopenable_log" -> LogFile(1, NoneVal, "unopenable")
               [] kind = "mismatched_log" -> LogFile(1, NoneVal, "mismatched")
               [] kind \in {"two_steps", "short_video", "no_video"} ->
                      LogFile(2, NoneVal, "ok")
               [] OTHER -> LogFile(1, NoneVal, "ok"),
     folder |-> CASE kind = "two_steps" -> FullFolder(2)
                  [] kind = "missing_stream" ->
                         [kind |-> "folder", files |-> <<VideoFile("W", 1)>>]
                  [] kind = "no_video" -> [kind |-> "folder", files |-> <<>>]
                  [] OTHER -> FullFolder(1)]

\* The orders in which a directory can list n entries.
Orderings(n) == {o \in [1..n -> 1..n] : \A x, y \in 1..n : x # y => o[x] # o[y]}

\* A root named in data_dirs: a directory with the episode directories glob
\* finds under it (in the order glob lists them), a name that is no directory,
\* or the empty name a stray comma leaves.
Root(name, entries) == [name |-> name, isdir |-> TRUE, entries |-> entries]
NotADirectory == [name |-> "file", isdir |-> FALSE, entries |-> <<>>]
EmptyName == [name |-> "", isdir |-> FALSE, entries |-> <<>>]

\* The ways data_dirs names its roots: one root; the root with an empty name
\* or a non-directory beside it; two roots a and b (every path under a sorts
\* before every path under b), named in either order.
RootLists(entries) ==
    {<<Root("a", entries)>>,
     <<EmptyName, Root("a", entries)>>,
     <<Root("a", entries), NotADirectory>>,
     <<NotADirectory, Root("a", entries)>>}
    \cup UNION {
         LET lower == SubSeq(entries, 1, k)
             upper == SubSeq(entries, k + 1, Len(entries))
         IN IF \A x \in 1..Len(lower), y \in 1..Len(upper) : lower[x].path < upper[y].path
            THEN {<<Root("a", lower), Root("b", upper)>>,
                  <<Root("b", upper), Root("a", lower)>>}
            ELSE {} : k \in 1..(Len(entries) - 1)}

InitGen ==
    /\ \E n \in 0..MaxEpisodes :
       \E kinds \in [1..n -> EpisodeKinds], order \in Orderings(n) :
          data_dirs \in RootLists([j \in 1..n |-> EpisodeDir(kinds[j], order[j])])
    /\ builder \in Builders
    /\ gen_pc = "call"
    /\ crawled = NoneVal
    /\ episode_paths = <<>> /\ next_path = 0 /\ emitted = <<>> /\ gen_exc = NoneVal
    /\ ReaderIdle /\ TrajIdle /\ EncIdle

\* _generate_examples up to its loop: crawl and keep the eligible episodes.
Crawl ==
    /\ gen_pc = "call"
    /\ \E all_folderpaths \in {crawler(data_dirs)} :
       \E paths \in {episode_paths_of(data_dirs, all_folderpaths)} :
          /\ crawled' = all_folderpaths
          /\ IF IsRaise(paths)
             THEN gen_pc' = "raised" /\ gen_exc' = paths
                                     /\ UNCHANGED <<episode_paths, next_path>>
             ELSE gen_pc' = "loop" /\ episode_paths' = paths.items /\ next_path' = 1
                                   /\ gen_exc' = gen_exc
    /\ UNCHANGED <<data_dirs, emitted, builder, readerVars, trajVars, encVars>>

\* One iteration of "for sample in episode_paths: yield _parse_example(sample)",
\* or the end of the loop.
ParseNext ==
    /\ gen_pc = "loop"
    /\ IF next_path > Len(episode_paths)
       THEN gen_pc' = "done" /\ UNCHANGED <<next_path, emitted, gen_exc>>
       ELSE \E ex \in {_parse_example(EpisodeAt(data_dirs, episode_paths[next_path]),
                                      "W", "S", builder)} :
               IF IsRaise(ex)
               THEN gen_pc' = "raised" /\ gen_exc' = ex /\ UNCHANGED <<next_path, emitted>>
               ELSE /\ emitted' = Append(emitted, ex)
                    /\ next_path' = next_path + 1
                    /\ UNCHANGED <<gen_pc, gen_exc>>
    /\ UNCHANGED <<data_dirs, crawled, episode_paths, builder, readerVars, trajVars,
                   encVars>>

NextGen == Crawl \/ ParseNext

SpecGen == InitGen /\ [][NextGen]_vars

(* ======================================================================= *)
(* Specification SpecParse: one call of _parse_example, for every pair of  *)
(* configured camera identities.                                           *)
(* ======================================================================= *)
\* The four streams of the cameras W and S, n frames each, in the order the
\* directory lists them.
StreamNames == <<"W", "W_depth", "S", "S_depth">>

\* The recordings/MP4 folders of SpecParse: the four streams in every order a
\* directory can list them, the folder in which S_depth.mp4 is missing, and
\* the folders of a single camera.
ParseFolders(n) ==
    {[kind |-> "folder",
      files |-> [j \in 1..Len(StreamNames) |-> VideoFile(StreamNames[o[j]], n)]] :
        o \in Orderings(Len(StreamNames))}
    \cup {[kind |-> "folder",
           files |-> <<VideoFile("W", n), VideoFile("W_depth", n), VideoFile("S", n)>>]}
    \cup {[kind |-> "folder", files |-> <<VideoFile(c, n), VideoFile(DepthId(c), n)>>] :
             c \in {"W", "S"}}

\* The camera identities a builder can be configured with.
CameraIds == {"W", "S"}

InitParse ==
    /\ \E h \in 1..MaxSteps, w \in CameraIds, st \in CameraIds :
       \E folder \in ParseFolders(h) :
          args = [kind |-> "parse",
                  episode |-> [path |-> 1, has_h5 |-> TRUE, has_mp4 |-> TRUE,
                               log |-> LogFile(h, NoneVal, "ok"), folder |-> folder],
                  wrist_cam_id |-> w, static_cam_id |-> st]
    /\ builder \in Builders
    /\ enc_pc = "parse"
    /\ data = <<>> /\ sample = NoneVal
    /\ pc = "idle" /\ traj_reader = NoneVal /\ camera_reader = NoneVal
    /\ indices_to_save = <<>> /\ it = 0 /\ timestep_list = <<>> /\ result = NoneVal
    /\ hist = NoHist
    /\ ReaderIdle /\ GenIdle

\* _parse_example(episode_path): data keeps the trajectory load_trajectory
\* returned, sample the sample built from it or the exception raised.
ParseExample ==
    /\ enc_pc = "parse"
    /\ \E loaded \in {load_trajectory(args.episode.log, args.wrist_cam_id,
                                      args.static_cam_id, args.episode.folder)} :
          IF IsRaise(loaded)
          THEN data' = data /\ sample' = loaded
          ELSE /\ data' = loaded.timestep_list
               /\ sample' = encode_episode(loaded.timestep_list, loaded.target_label,
                                           h5_path(args.episode.path),
                                           mp4_path(args.episode.path), builder)
    /\ enc_pc' = "done"
    /\ UNCHANGED <<builder, readerVars, trajVars, genVars>>

NextParse == ParseExample

SpecParse == InitParse /\ [][NextParse]_vars

(* ======================================================================= *)
(* Claims                                                                  *)
(* ======================================================================= *)
FreshReader == MP4Reader(VideoFile(reader._mp4_reader.file, reader._mp4_reader.nframes),
                         reader.serial_number, reader.grayscale)

\* C1: for every frame index i within the stream's bounds and every cursor
\* position (behind i, at i, ahead of i), set_frame_index(i) followed by
\* read_camera() returns the frame a fresh reader returns when it reads
\* sequentially from frame 0 up to frame i.
C1_SeekThenReadEquivalence ==
    (call.op = "read_camera" /\ call.after_set /\ call.index < reader._mp4_reader.nframes)
        => ret = read_sequentially(FreshReader, call.index)

\* C3: when the underlying stream is exhausted (the decoder's read reports no
\* success), read_camera returns None to its caller and does not raise, for
\* color and for depth readers alike.
C3_EndOfStreamReturnsNone ==
    (call.op = "read_camera" /\ call.eos) => ret = NoneVal

(* ------------------------- load_trajectory ----------------------------- *)
\* The position in the log a timestep was read from.
OriginalIndex(timestep) == Get(Get(timestep, "action"), "cartesian_velocity").at
OriginalIndices(tl) == [j \in 1..Len(tl) |-> OriginalIndex(tl[j])]
StrictlyAscending(q) == \A j \in 1..(Len(q) - 1) : q[j] < q[j + 1]
Horizon == traj_reader._length.v

\* C2: if the multi-camera read first fails at visited index k, load_trajectory
\* returns (it does not raise) a sequence holding only timesteps of original
\* index < k, and no index greater than k is read from the log or the cameras.
C2_FailureKeepsPrefix ==
    hist.failed_at.kind = "int" =>
        /\ pc # "raised"
        /\ \A j \in 1..Len(timestep_list) : OriginalIndex(timestep_list[j]) < hist.failed_at.v
        /\ \A j \in 1..Len(hist.visited) : hist.visited[j] <= hist.failed_at.v
        /\ \A j \in 1..Len(hist.cam_reads) : hist.cam_reads[j] <= hist.failed_at.v

\* C4: when load_trajectory has returned, the trajectory reader is closed and
\* every MP4Reader it opened is released.
C4_BothReadersClosed ==
    pc = "done" =>
        /\ traj_reader._hdf5_file.closed
        /\ camera_reader.kind # "None" =>
              \A j \in 1..Len(camera_reader.camera_dict.items) :
                  camera_reader.camera_dict.items[j].v._mp4_reader.released

\* C5: when the post-pass subsampling fired, the timesteps it keeps are in
\* ascending original index order.
C5_SubsampleKeepsOrder ==
    (pc \in {"close", "done"} /\ hist.subsampled) =>
        StrictlyAscending(OriginalIndices(timestep_list))

\* C6: whenever video reading is enabled, the indices load_trajectory visits
\* are strictly ascending (no repeats), with or without a random subsample.
C6_VisitsAscending ==
    (pc # "call" /\ args.read_cameras) => StrictlyAscending(hist.visited)

\* C6 witness: a run with video that drew a subsample and visited two indices
\* with a gap between them.
C6_Witness ==
    /\ read_recording_folderpath /\ Truthy(args.num_samples_per_traj)
    /\ Len(hist.visited) >= 2 /\ hist.visited[2] > hist.visited[1] + 1
    /\ Len(hist.cam_reads) >= 2

\* C7: with num_samples_per_traj = N < length and remove_skipped_steps false,
\* a returning load_trajectory returns exactly N timesteps, of distinct
\* original indices, in ascending original index order.
C7_ExactlyNSamples ==
    (/\ pc = "done"
     /\ args.num_samples_per_traj.kind = "int"
     /\ args.num_samples_per_traj.v < Horizon
     /\ ~args.remove_skipped_steps) =>
        /\ Len(timestep_list) = args.num_samples_per_traj.v
        /\ StrictlyAscending(OriginalIndices(timestep_list))

\* C7 witness: a run over a video folder returned two samples of a longer log.
C7_Witness ==
    /\ pc = "done" /\ read_recording_folderpath /\ ~args.remove_skipped_steps
    /\ args.num_samples_per_traj = PyInt(2) /\ Horizon > 2
    /\ Len(timestep_list) = 2

\* C8: read_cameras is an all-or-nothing join: when a camera's read met the end
\* of its stream the call returns None (no image of any camera is surfaced),
\* and when every camera succeeded it returns one frame per camera id.
C8_AllOrNothingJoin ==
    hist.last_read.kind = "call" =>
        IF ~hist.last_read.success
        THEN hist.last_read.ret = NoneVal
        ELSE /\ hist.last_read.ret.kind = "dict"
             /\ Keys(GetOr(hist.last_read.ret, "image", Dict(<<>>)))
                   = Keys(camera_reader.camera_dict)

(* --------------------------- _parse_example ---------------------------- *)
ObservationKeys(timestep) == Keys(Get(timestep, "observation"))

Parses(path) ==
    /\ eligible(data_dirs, path)
    /\ ~IsRaise(_parse_example(EpisodeAt(data_dirs, path), "W", "S", builder))
AllPaths == UNION {{data_dirs[r].entries[j].path : j \in 1..Len(data_dirs[r].entries)} :
                      r \in 1..Len(data_dirs)}

\* C10: per-episode failures are isolated: when the run of _generate_examples
\* has ended, the record of every eligible episode that can be processed has
\* been emitted, whether or not another episode failed.
C10_FailuresIsolated ==
    (gen_pc \in {"done", "raised"} /\ ~IsRaise(crawled)) =>
        \A q \in AllPaths :
            Parses(q) => \E j \in 1..Len(emitted) : emitted[j].key = q

(* ------------------------------ C11..C20 ------------------------------- *)
\* C11: for every non-empty encoded sequence of n steps, reward = 1.0 and
\* is_last hold on exactly step n-1 (0.0 and False elsewhere), is_first on
\* exactly step 0, is_terminal equals is_last and discount = 1.0 on every step.
C11_EpisodeFlags ==
    (enc_pc = "done" /\ sample.kind = "sample") =>
        /\ Len(sample.steps) = Len(data)
        /\ \A j \in 1..Len(sample.steps) :
              LET st == sample.steps[j]
                  n == Len(sample.steps)
              IN /\ st.reward = (IF j = n THEN PyFloat(2) ELSE PyFloat(0))
                 /\ st.is_last = (j = n)
                 /\ st.is_first = (j = 1)
                 /\ st.is_terminal = st.is_last
                 /\ st.discount = PyFloat(2)

\* C11 witness: an episode of several steps was encoded.
C11_Witness == enc_pc = "done" /\ sample.kind = "sample" /\ Len(sample.steps) = MaxSteps

\* An eligible episode whose log opens with a length and whose recordings/MP4
\* folder holds no video.
NoVideoEpisode(ep) ==
    /\ ep.has_h5 /\ ep.has_mp4 /\ glob_mp4(ep.folder) = <<>>
    /\ ~IsRaise(TrajectoryReader(ep.log, FALSE))
    /\ TrajectoryReader(ep.log, FALSE)._length.kind = "int"

\* The episodes _generate_examples has processed: those before next_path, and
\* the one at next_path when it raised there.
Processed == {j \in 1..Len(episode_paths) :
                 j < next_path \/ (j = next_path /\ gen_pc = "raised")}

\* C12: for an episode whose log has L timesteps and no video (no filtering,
\* no subsampling), the pipeline emits an episode of exactly L steps, is_first
\* true only at step 0, is_terminal true only at step L-1, discount 1.0.
C12_NoVideoEpisodeEmitted ==
    \A j \in Processed :
        LET ep == EpisodeAt(data_dirs, episode_paths[j])
            L == TrajectoryReader(ep.log, FALSE)._length.v
        IN NoVideoEpisode(ep) =>
              /\ j <= Len(emitted)
              /\ emitted[j].key = ep.path
              /\ Len(emitted[j].sample.steps) = L
              /\ \A i \in 1..L :
                    LET st == emitted[j].sample.steps[i]
                    IN /\ st.is_first = (i = 1)
                       /\ st.is_terminal = (i = L)
                       /\ st.discount = PyFloat(2)

\* The paths glob finds under the roots that are named and are directories.
CrawlablePaths ==
    UNION {{data_dirs[r].entries[j].path : j \in 1..Len(data_dirs[r].entries)} :
              r \in {x \in 1..Len(data_dirs) : data_dirs[x].name # ""}}

\* C18: crawler returns the paths found under every root as one list in
\* sorted order, whatever the order of the roots and of the directory
\* listings, and fails if a named root is not a directory.
C18_CrawlerSorted ==
    gen_pc # "call" =>
        IF \E r \in 1..Len(data_dirs) : data_dirs[r].name # "" /\ ~data_dirs[r].isdir
        THEN crawled = Raised("AssertionError") /\ gen_pc = "raised"
        ELSE /\ crawled.kind = "list"
             /\ StrictlyAscending(crawled.items)
             /\ {crawled.items[j] : j \in 1..Len(crawled.items)} = CrawlablePaths

\* C18 witness: two roots were named with the later-sorting one first, and the
\* crawl returned both their paths.
C18_Witness ==
    /\ gen_pc # "call" /\ crawled.kind = "list" /\ Len(crawled.items) = 2
    /\ Len(data_dirs) = 2 /\ data_dirs[1].name = "b" /\ data_dirs[2].name = "a"

\* C19: _generate_examples emits one record per eligible episode in sorted
\* order: the episodes it processes are exactly the crawled directories with
\* both trajectory.h5 and recordings/MP4, the records emitted so far are those
\* of the first episodes in that order, each with its log path and camera
\* directory path, and a run that ends has emitted one for every one of them.
C19_OneRecordPerEligibleEpisode ==
    (gen_pc \in {"loop", "done", "raised"} /\ ~IsRaise(crawled)) =>
        /\ StrictlyAscending(episode_paths)
        /\ {episode_paths[j] : j \in 1..Len(episode_paths)}
              = {q \in CrawlablePaths : EpisodeAt(data_dirs, q).has_h5
                                         /\ EpisodeAt(data_dirs, q).has_mp4}
        /\ Len(emitted) <= Len(episode_paths)
        /\ \A j \in 1..Len(emitted) :
              /\ emitted[j].key = episode_paths[j]
              /\ emitted[j].sample.episode_metadata
                    = [file_path |-> [dir |-> episode_paths[j], name |-> "trajectory.h5"],
                       recording_folderpath |-> [dir |-> episode_paths[j],
                                                 name |-> "recordings/MP4"]]
        /\ gen_pc = "done" => Len(emitted) = Len(episode_paths)

\* C19 witness: a run ended with a record emitted and a crawled directory
\* left out as ineligible.
C19_Witness ==
    /\ gen_pc = "done" /\ Len(emitted) >= 1
    /\ \E q \in CrawlablePaths : ~EpisodeAt(data_dirs, q).has_mp4

(* ----------------------------------------------------------------------- *)
\* The lengths of all leaf series of a log, at any depth.
RECURSIVE LeafLengths(_)
LeafLengths(node) ==
    IF node.kind = "dataset" THEN {Len(node.data)}
    ELSE UNION {LeafLengths(node.items[j].v) : j \in 1..Len(node.items)}

\* C13: once the constructor has run on a log h5py can open, if all leaf series
\* of the log have one common length the reader exists and its length is
\* that length, and if two leaf series differ in length, at any depth, the
\* constructor has failed with the assertion error.
C13_LengthIsCommonLength ==
    (pc \in {"ready", "raised"} /\ args.filepath.openable) =>
        LET lens == LeafLengths(args.filepath.tree)
        IN /\ Cardinality(lens) = 1 =>
                 /\ pc = "ready"
                 /\ \A n \in lens : traj_reader._length = PyInt(n)
           /\ Cardinality(lens) > 1 =>
                 pc = "raised" /\ result = Raised("AssertionError")

(* ----------------------------------------------------------------------- *)
\* C14: after read_timestep(index) with an index given, a record was returned
\* only if 0 <= index < length, and for every other index the call failed.
C14_IndexInRange ==
    (pc = "read" /\ indices_to_save # <<>> /\ traj_reader._length.kind # "None") =>
        (~IsRaise(result) <=> (0 <= it /\ it < traj_reader._length.v))

(* ----------------------------------------------------------------------- *)
\* The member of a group under a key, or NoneVal.
Member(node, key) ==
    IF \E j \in 1..Len(node.items) : node.items[j].k = key
    THEN (CHOOSE m \in {node.items[j] : j \in 1..Len(node.items)} : m.k = key).v
    ELSE NoneVal

\* Step i of the log counts as skipped: movement_enabled is recorded and false.
SkippedInLog(i) ==
    LET series == Member(Member(Member(args.filepath.tree, "observation"),
                                "controller_info"), "movement_enabled")
    IN series.kind = "dataset" /\ series.data[i + 1] = PyBool(FALSE)

\* The visited indices whose timestep reached the filter: all of them but the
\* one at which the multi-camera read failed.
Filtered == SelectSeq(hist.visited, LAMBDA i : hist.failed_at # PyInt(i))

\* The visited indices the filter lets through.
Collected ==
    SelectSeq(Filtered, LAMBDA i : ~(args.remove_skipped_steps /\ SkippedInLog(i)))

\* C15 (amended): the sequence the loop has collected holds exactly the
\* visited steps that are not skipped when remove_skipped_steps is true, and
\* all visited steps when it is false, a step being skipped exactly when the
\* log records movement_enabled false for it; the returned sequence is that
\* sequence unless the post-pass fired, and then it is num_samples_per_traj
\* of its steps.
C15_SkippedStepsFiltered ==
    /\ pc \in {"loop", "post"} => OriginalIndices(timestep_list) = Collected
    /\ pc = "done" =>
          LET returned == OriginalIndices(result.timestep_list)
          IN IF hist.subsampled
             THEN /\ Len(returned) = args.num_samples_per_traj.v
                  /\ Len(returned) < Len(Collected)
                  /\ \A j \in 1..Len(returned) :
                        \E k \in 1..Len(Collected) : returned[j] = Collected[k]
             ELSE returned = Collected

\* C15 as stated: the returned sequence holds every visited step the filter
\* lets through.
C15_ReturnedHoldsEveryKeptStep ==
    pc = "done" => OriginalIndices(result.timestep_list) = Collected

\* C15 witness: a run with remove_skipped_steps true that visited a skipped and
\* a non-skipped step and returned without the post-pass.
C15_Witness ==
    /\ pc = "done" /\ args.remove_skipped_steps /\ ~hist.subsampled
    /\ \E j \in 1..Len(hist.visited) : SkippedInLog(hist.visited[j])
    /\ result.timestep_list # <<>>

(* ----------------------------------------------------------------------- *)
\* C16: in every timestep load_trajectory returns, observation.camera_type is
\* the mapping built from the caller's wrist and static camera identities,
\* whether or not cameras are read and a recording folder is given.
C16_CameraTypeOverridden ==
    pc = "done" =>
        \A j \in 1..Len(result.timestep_list) :
            Get(Get(result.timestep_list[j], "observation"), "camera_type")
                = camera_type_override(args.wrist_cam_id, args.static_cam_id)

(* ----------------------------------------------------------------------- *)
\* C17: once the wrapper's constructor has run on a recordings folder, if the
\* folder holds a file of an extension other than mp4 the constructor has
\* failed with ValueError, and otherwise the wrapper holds exactly one reader
\* per file, grayscale for the _depth.mp4 files and color for the others.
C17_UnrecognizedFileRejected ==
    (pc # "call" /\ read_recording_folderpath /\ traj_reader # NoneVal) =>
        LET files == args.recording_folderpath.files
        IN IF \E j \in 1..Len(files) : files[j].ext # "mp4"
           THEN pc = "raised" /\ result = Raised("ValueError")
           ELSE /\ Keys(camera_reader.camera_dict) = {files[j].stem : j \in 1..Len(files)}
                /\ \A j \in 1..Len(files) :
                      Get(camera_reader.camera_dict, files[j].stem).grayscale
                          = (files[j].stem \in {"W_depth", "S_depth"})

(* ----------------------------------------------------------------------- *)
\* C20: a run that has opened its readers and entered the loop eventually
\* returns with the log closed; it leaves the loop only for the post-pass,
\* after a failed camera read or when the indices are exhausted; after a
\* failed camera read no camera is read again; and once the loop is left no
\* timestep and no frame is read.
C20_RunLifecycle ==
    /\ (pc = "loop") ~> (pc = "done" /\ traj_reader._hdf5_file.closed)
    /\ [][(pc = "loop" /\ pc' # "loop") =>
             /\ pc' = "post"
             /\ hist'.failed_at # NoneVal \/ it > Len(indices_to_save)]_vars
    /\ [][hist.failed_at # NoneVal => (hist'.cam_reads = hist.cam_reads)]_vars
    /\ [][(pc \in {"post", "close", "done"}) =>
             (hist'.visited = hist.visited /\ hist'.cam_reads = hist.cam_reads)]_vars

(* ----------------------------------------------------------------------- *)
\* The cursors of the camera readers of a multi-camera wrapper, by camera id.
Cursors(w) == [k \in Keys(w.camera_dict) |-> Get(w.camera_dict, k)._index]

IsWrapper(w) == w.kind = "RecordedMultiCameraWrapper"

\* C21: a reader's cursor decreases only in a set_frame_index call whose
\* target is behind the cursor; and in a run of load_trajectory every
\* read_cameras(index) call finds every camera's cursor at or before index, so
\* that no backward seek is issued, and no camera's cursor ever decreases.
C21_CursorMonotonic ==
    [][/\ (reader # NoneVal /\ reader'._index < reader._index) =>
              (call'.op = "set_frame_index" /\ call'.index < reader._index)
       /\ (IsWrapper(camera_reader) /\ hist'.cam_reads # hist.cam_reads) =>
              \A k \in Keys(camera_reader.camera_dict) :
                  Cursors(camera_reader)[k] <= hist'.cam_reads[Len(hist'.cam_reads)]
       /\ (IsWrapper(camera_reader) /\ IsWrapper(camera_reader')) =>
              \A k \in Keys(camera_reader.camera_dict) :
                  Cursors(camera_reader)[k] <= Cursors(camera_reader')[k]]_vars

\* C21 witness: a run that read the cameras at indices 0 and 2 and returned,
\* the cursor of a camera standing behind the last frame read.
C21_Witness ==
    /\ pc = "done" /\ IsWrapper(camera_reader)
    /\ hist.cam_reads = <<0, 2>>
    /\ \E k \in Keys(camera_reader.camera_dict) : Cursors(camera_reader)[k] = 3

(* ----------------------------------------------------------------------- *)
\* The camera ids of a timestep's images, or NoneVal without an 'image' entry.
ImageIds(timestep) ==
    IF Has(Get(timestep, "observation"), "image")
    THEN [kind |-> "ids", ids |-> Keys(Get(Get(timestep, "observation"), "image"))]
    ELSE NoneVal

\* C22: all timesteps load_trajectory has collected or returned have the same
\* observation key set, and either all have an 'image' entry with the same
\* camera ids or none has one.
C22_SameObservationKeys ==
    LET tl == IF pc = "done" THEN result.timestep_list ELSE timestep_list
    IN \A j \in 1..Len(tl) :
          /\ ObservationKeys(tl[j]) = ObservationKeys(tl[1])
          /\ ImageIds(tl[j]) = ImageIds(tl[1])

\* C22 witness: a returned episode of at least two timesteps, each with the
\* images of two cameras.
C22_Witness ==
    /\ pc = "done" /\ Len(result.timestep_list) >= 2
    /\ ImageIds(result.timestep_list[2]) = [kind |-> "ids", ids |-> {"W", "S_depth"}]

(* ----------------------------------------------------------------------- *)
\* The role mapping stored in timestep j of the trajectory loaded.
RoleMapping(j) == Get(Get(data[j], "observation"), "camera_type")

\* C23: for every pair of configured camera identities, the equal ones
\* included, the role mapping of each timestep load_trajectory returns has
\* exactly four identifiers: the wrist camera's and its depth stream's with
\* role 0, the static camera's and its depth stream's with role 1.
C23_FourRoleIdentifiers ==
    enc_pc = "done" =>
        /\ \A j \in 1..Len(data) :
              /\ Cardinality(Keys(RoleMapping(j))) = 4
              /\ {k \in Keys(RoleMapping(j)) : Get(RoleMapping(j), k) = PyInt(0)}
                    = {args.wrist_cam_id, DepthId(args.wrist_cam_id)}
              /\ {k \in Keys(RoleMapping(j)) : Get(RoleMapping(j), k) = PyInt(1)}
                    = {args.static_cam_id, DepthId(args.static_cam_id)}

(* ----------------------------------------------------------------------- *)
\* floor(n * c) for a coefficient c given in halves.
FloorScaled(n, c) == (n * c.halves) \div 2

\* C24: a run that left the loop without a camera failure has visited, when
\* num_samples_per_traj = N is set, exactly min(N, length) distinct indices of
\* the log if remove_skipped_steps is false and exactly
\* min(floor(N * coefficient), length) if it is true, and every index of the
\* log when N is unset.
C24_VisitedCount ==
    (pc \in {"post", "close", "done"} /\ hist.failed_at = NoneVal) =>
        /\ \A j \in 1..Len(hist.visited) : hist.visited[j] \in 0..(Horizon - 1)
        /\ Cardinality({hist.visited[j] : j \in 1..Len(hist.visited)}) = Len(hist.visited)
        /\ Len(hist.visited) =
              IF args.num_samples_per_traj = NoneVal THEN Horizon
              ELSE IF args.remove_skipped_steps
              THEN Min(FloorScaled(args.num_samples_per_traj.v,
                                   args.num_samples_per_traj_coeff), Horizon)
              ELSE Min(args.num_samples_per_traj.v, Horizon)

(* ----------------------------------------------------------------------- *)
\* The role of a camera id of the cameras W and S.
RoleOf(cam_id) == IF cam_id \in {"W", "W_depth"} THEN "wrist_camera" ELSE "static_camera"

\* The reading options of a camera's role disable decoding.
DecodingDisabled(cam_id) ==
    /\ Has(args.camera_kwargs, RoleOf(cam_id))
    /\ GetOr(Get(args.camera_kwargs, RoleOf(cam_id)), "image", TRUE) = FALSE

\* C25: a read_cameras(index) call leaves the cursor and the decoder position
\* of every camera whose role disables decoding unchanged; when it returns a
\* mapping, the mapping holds no image of such a camera and an image of every
\* other camera, whose cursor stands at index + 1; and it returns None or
\* raises only when some camera is decoded.
C25_DisabledCameraUntouched ==
    [][pc = "cams" =>
        LET ids == Keys(camera_reader.camera_dict)
            disabled == {k \in ids : DecodingDisabled(k)}
            images == IF Has(result', "image") THEN Keys(Get(result', "image")) ELSE {}
        IN /\ \A k \in disabled :
                 /\ Get(camera_reader'.camera_dict, k)._index
                       = Get(camera_reader.camera_dict, k)._index
                 /\ Get(camera_reader'.camera_dict, k)._mp4_reader
                       = Get(camera_reader.camera_dict, k)._mp4_reader
           /\ result'.kind = "dict" =>
                 /\ images = ids \ disabled
                 /\ \A k \in ids \ disabled :
                       Get(camera_reader'.camera_dict, k)._index = it' + 1
           /\ disabled = ids => result'.kind = "dict"]_vars

\* C25 witness: a read at index 1 with the wrist camera's decoding disabled
\* returned the static camera's image only.
C25_Witness ==
    /\ pc = "cams" /\ it = 1 /\ DecodingDisabled("W") /\ ~DecodingDisabled("S_depth")
    /\ result.kind = "dict" /\ Has(result, "image")
    /\ Keys(Get(result, "image")) = {"S_depth"}
    /\ Get(camera_reader.camera_dict, "W")._index = 0
    /\ Get(camera_reader.camera_dict, "S_depth")._index = 2

(* ----------------------------------------------------------------------- *)
\* The builder variant other than b.
OtherBuilder(b) == CHOOSE o \in Builders : o # b

\* What the other builder's _parse_example returns on the same episode input.
OtherExample ==
    _parse_example(args.episode, args.wrist_cam_id, args.static_cam_id, OtherBuilder(builder))

\* A step with its language_instruction blanked.
WithoutInstruction(st) == [st EXCEPT !.language_instruction = <<>>]

\* The task label the episode's log records.
TaskLabel == args.episode.log.attrs.current_task

Commanded(j, name) == Get(Get(data[j], "action"), name)

IsFrameOf(image, cam_id, no) == image.of.file = cam_id /\ image.of.no = no

\* C28: in every emitted step, wrist_image is the step's frame of the camera
\* wrist_cam_id, wrist_depth_image that of its depth stream, static_image that
\* of the camera static_cam_id and static_depth_image that of its depth
\* stream, in whatever order the directory lists the video files; the RGB
\* slots hold color frames and the depth slots grayscale frames.
C28_ImagesByRole ==
    (enc_pc = "done" /\ ~IsRaise(sample)) =>
        \A j \in 1..Len(sample.steps) :
            LET obs == sample.steps[j].observation
            IN /\ IsFrameOf(obs.wrist_image, args.wrist_cam_id, j - 1)
               /\ IsFrameOf(obs.wrist_depth_image, DepthId(args.wrist_cam_id), j - 1)
               /\ IsFrameOf(obs.static_image, args.static_cam_id, j - 1)
               /\ IsFrameOf(obs.static_depth_image, DepthId(args.static_cam_id), j - 1)
               /\ obs.wrist_image.of.fmt = "RGB" /\ obs.static_image.of.fmt = "RGB"
               /\ obs.wrist_depth_image.of.fmt = "GRAY"
               /\ obs.static_depth_image.of.fmt = "GRAY"

\* C28 witness: a record was emitted for the wrist camera S from a directory
\* that lists W_depth.mp4 first and S.mp4 last.
C28_Witness ==
    /\ enc_pc = "done" /\ ~IsRaise(sample) /\ sample.steps # <<>>
    /\ args.wrist_cam_id = "S" /\ args.static_cam_id = "W"
    /\ args.episode.folder.files[1].stem = "W_depth"
    /\ args.episode.folder.files[4].stem = "S"

(* ----------------------------------------------------------------------- *)
\* C29: after a read_cameras(index) call that returned a mapping, with
\* decoding enabled for all cameras, every camera's cursor is index + 1 and
\* the image returned for each camera is frame index of its stream.
C29_FrameMatchesIndex ==
    (/\ pc = "cams" /\ hist.cam_reads # <<>> /\ result.kind = "dict"
     /\ \A k \in Keys(camera_reader.camera_dict) : ~DecodingDisabled(k)) =>
        \A k \in Keys(camera_reader.camera_dict) :
            /\ Get(camera_reader.camera_dict, k)._index = it + 1
            /\ Get(Get(result, "image"), k).file = k
            /\ Get(Get(result, "image"), k).no = it

(* ----------------------------------------------------------------------- *)
\* C30: when num_samples_per_traj is an integer N, the sequence load_trajectory
\* returns has at most N timesteps, each one of the collected timesteps, and
\* none of them twice.
C30_AtMostNReturned ==
    (pc = "done" /\ args.num_samples_per_traj.kind = "int") =>
        LET returned == OriginalIndices(result.timestep_list)
        IN /\ Len(returned) <= args.num_samples_per_traj.v
           /\ \A j \in 1..Len(returned) : \E k \in 1..Len(Collected) : returned[j] = Collected[k]
           /\ \A j, k \in 1..Len(returned) : j # k => returned[j] # returned[k]

\* C30 witness: with N = 2, filtering on and the coefficient 1.5, three steps
\* were collected and two returned.
C30_Witness ==
    /\ pc = "done" /\ args.num_samples_per_traj = PyInt(2) /\ args.remove_skipped_steps
    /\ args.num_samples_per_traj_coeff = PyFloat(3)
    /\ Len(Collected) = 3 /\ Len(result.timestep_list) = 2

(* ----------------------------------------------------------------------- *)
\* C31: with num_samples_per_traj = 0 on a non-empty log, a run that leaves
\* the loop without a camera failure has visited every index of the log and
\* read the cameras at every index, has collected every timestep when
\* remove_skipped_steps is false, and returns the empty sequence.
C31_ZeroSamples ==
    (/\ pc \in {"post", "close", "done"}
     /\ args.num_samples_per_traj = PyInt(0)
     /\ Horizon > 0) =>
        /\ hist.failed_at = NoneVal =>
              /\ hist.visited = np_arange(Horizon)
              /\ read_recording_folderpath => hist.cam_reads = np_arange(Horizon)
              /\ (pc = "post" /\ ~args.remove_skipped_steps) =>
                    OriginalIndices(timestep_list) = np_arange(Horizon)
        /\ pc = "close" => timestep_list = <<>>
        /\ pc = "done" => result.timestep_list = <<>>

\* C31 witness: with num_samples_per_traj = 0 a run read a log of MaxHorizon
\* timesteps and the cameras at every index, and returned nothing.
C31_Witness ==
    /\ pc = "done" /\ args.num_samples_per_traj = PyInt(0) /\ Horizon = MaxHorizon
    /\ read_recording_folderpath /\ Len(hist.cam_reads) = MaxHorizon
    /\ hist.subsampled /\ result.timestep_list = <<>>

(* ----------------------------------------------------------------------- *)
\* C32: when a run with cameras and remove_skipped_steps visits an index whose
\* step is skipped, the cameras are read at that index and the step is not
\* collected; if the read succeeds every camera's cursor stands behind the
\* index and the loop goes on, and if it fails the loop is left; once a
\* camera read has failed the run is outside the loop.
C32_CamerasReadBeforeFilter ==
    /\ [][(/\ pc = "loop" /\ hist'.visited # hist.visited
           /\ read_recording_folderpath /\ args.remove_skipped_steps
           /\ SkippedInLog(hist'.visited[Len(hist'.visited)])) =>
             LET i == hist'.visited[Len(hist'.visited)]
             IN /\ hist'.cam_reads = Append(hist.cam_reads, i)
                /\ timestep_list' = timestep_list
                /\ IF ~IsRaise(hist'.last_read.ret) /\ hist'.last_read.ret # NoneVal
                   THEN /\ pc' = "loop"
                        /\ \A k \in Keys(camera_reader'.camera_dict) :
                              Cursors(camera_reader')[k] = i + 1
                   ELSE pc' \in {"post", "raised"}]_vars
    /\ [](hist.failed_at # NoneVal => pc # "loop")

\* C32 witness: a run dropped the skipped step 0 after reading two cameras at
\* it, and went on to read them at index 1.
C32_Witness ==
    /\ pc \in {"loop", "post"} /\ read_recording_folderpath /\ args.remove_skipped_steps
    /\ Len(hist.cam_reads) >= 2 /\ hist.cam_reads[1] = 0 /\ SkippedInLog(0)
    /\ Cardinality(Keys(camera_reader.camera_dict)) = 2
    /\ hist.failed_at = NoneVal

\* A camera read failed at an index whose step is skipped, and the run left
\* the loop there.
C32_FailureAtSkipped ==
    /\ pc \in {"post", "raised"} /\ read_recording_folderpath /\ args.remove_skipped_steps
    /\ hist.failed_at # NoneVal /\ SkippedInLog(hist.failed_at.v)
    /\ hist.visited[Len(hist.visited)] = hist.failed_at.v

(* ----------------------------------------------------------------------- *)
\* The ids read_cameras finds in camera_type_dict: the two cam ids and their
\* depth ids.
RoleIds == Keys(camera_type_override(args.wrist_cam_id, args.static_cam_id))

\* The positions of the camera ids of w that are not role ids.
UnknownAt(w) == {j \in 1..Len(KeyList(w.camera_dict)) : KeyList(w.camera_dict)[j] \notin RoleIds}

\* C33: when the cameras of a run hold an id that is not a role id, the first
\* visited index ends the run by raising: read_cameras raises instead of
\* returning None, no step is collected, the loop is never left by the break;
\* when the error is the KeyError of the unknown id, every camera listed
\* before it has been moved to the index and read, and the unknown camera and
\* those after it are untouched.
C33_UnknownCameraRaises ==
    /\ [][(/\ pc = "loop" /\ hist'.visited # hist.visited
           /\ read_recording_folderpath /\ UnknownAt(camera_reader) # {}) =>
             LET i == hist'.visited[Len(hist'.visited)]
                 ids == KeyList(camera_reader.camera_dict)
                 u == CHOOSE j \in UnknownAt(camera_reader) :
                         \A x \in UnknownAt(camera_reader) : j <= x
             IN /\ pc' = "raised" /\ IsRaise(result')
                /\ IsRaise(hist'.last_read.ret)
                /\ timestep_list' = timestep_list
                /\ hist.visited = <<>>
                /\ result' = Raised("KeyError") =>
                      /\ \A j \in 1..(u - 1) : Cursors(camera_reader')[ids[j]] = i + 1
                      /\ \A j \in u..Len(ids) :
                            Get(camera_reader'.camera_dict, ids[j])
                               = Get(camera_reader.camera_dict, ids[j])
                /\ result' # Raised("KeyError") =>
                      \E j \in 1..(u - 1) : Cursors(camera_reader)[ids[j]] <= i
                                            /\ hist'.failed_at = PyInt(i)]_vars
    /\ [](/\ pc \in {"loop", "post", "close", "done", "raised"}
          /\ read_recording_folderpath /\ IsWrapper(camera_reader)
          /\ UnknownAt(camera_reader) # {} /\ hist.visited # <<>>
          => pc = "raised")

\* C33 witness: the folder lists W.mp4 before X.mp4; the first read_cameras
\* call, at an index behind 0, raised KeyError after W was moved and read.
C33_Witness ==
    /\ pc = "raised" /\ read_recording_folderpath /\ IsWrapper(camera_reader)
    /\ KeyList(camera_reader.camera_dict) = <<"W", "X">>
    /\ result = Raised("KeyError")
    /\ Len(hist.visited) = 1 /\ hist.visited[1] > 0
    /\ Cursors(camera_reader)["W"] = hist.visited[1] + 1
    /\ Cursors(camera_reader)["X"] = 0

(* ----------------------------------------------------------------------- *)
\* The group with its members listed in the order o.
Reordered(group, o) == Group([j \in 1..Len(group.items) |-> group.items[o[j]]])

\* C34: once the constructor has run on a log h5py can open, get_hdf5_length
\* gives on every ordering of the root group's keys what it gave the
\* constructor: the reader's length where the reader exists, a failure where
\* the constructor raised.
C34_LengthOrderIndependent ==
    (pc \in {"ready", "raised"} /\ args.filepath.openable) =>
        \A o \in Orderings(Len(args.filepath.tree.items)) :
            LET length == get_hdf5_length(Reordered(args.filepath.tree, o), {})
            IN /\ pc = "ready" => length = traj_reader._length
               /\ pc = "raised" => IsRaise(length)

====
